---- MODULE Spec2Model ----
(***************************************************************************)
(* Model of the WBR temporal aggregation engine of                         *)
(* wbr-streamlit-bigquery/src/core: processar_dados_wbr and                *)
(* compute_trailing_weeks (processing.py), create_trailing_six_weeks and   *)
(* prepare_data_for_wbr (wbr_utility.py), WBRCalculator with its derived   *)
(* metrics, comparisons and dashboard KPIs (wbr_metrics.py), calcular_kpis *)
(* of wbr/kpis.py, calcular_metricas_wbr (src/core/wbr.py) and            *)
(* DataValidator.validate_dataframe (wbr_utility.py).                      *)
(*                                                                         *)
(* Dates are proleptic Gregorian ordinals (datetime.date.toordinal()).     *)
(* A pandas Timestamp is counted in half-day ticks: 2*ordinal is midnight  *)
(* of that day and 2*ordinal+1 is the last nanosecond of that day, the     *)
(* value Period.end_time yields.  Every date of the input series and every *)
(* reference date is a midnight.                                           *)
(***************************************************************************)
EXTENDS Integers, Sequences, FiniteSets, TLC

\* ------------------------------------------------------------------------
\* Bounds of the model
\* ------------------------------------------------------------------------
\* first calendar year a reference date is drawn from (a leap year)
FirstRefYear == 2024
\* number of consecutive calendar years reference dates are drawn from
NumRefYears == 2
\* largest num_weeks / trailing_weeks argument
MaxNumWeeks == 3
\* largest number of method calls made on one WBRCalculator
MaxCalls == 2
\* invocations of calcular_metricas_wbr in one behaviour
MaxInvocations == 3

LastRefYear == FirstRefYear + NumRefYears - 1
FirstDataYear == FirstRefYear - 1

\* ------------------------------------------------------------------------
\* Calendar (datetime / pandas.Timestamp arithmetic)
\* ------------------------------------------------------------------------
IsLeap(y) == (y % 4 = 0 /\ y % 100 # 0) \/ y % 400 = 0

DaysInMonth(y, m) ==
    IF m = 2 THEN (IF IsLeap(y) THEN 29 ELSE 28)
    ELSE IF m \in {4, 6, 9, 11} THEN 30 ELSE 31

DaysBeforeYear(y) ==
    365 * (y - 1) + ((y - 1) \div 4) - ((y - 1) \div 100) + ((y - 1) \div 400)

RECURSIVE DaysBeforeMonth(_, _)
DaysBeforeMonth(y, m) ==
    IF m = 1 THEN 0 ELSE DaysBeforeMonth(y, m - 1) + DaysInMonth(y, m - 1)

\* ordinal of the date y-m-d
ToOrdinal(y, m, d) == DaysBeforeYear(y) + DaysBeforeMonth(y, m) + d

Years == (FirstDataYear - 1)..(LastRefYear + 1)

\* date.fromordinal(n), tabulated once for the dates the model touches
CalendarDays == (DaysBeforeYear(FirstDataYear - 1) + 1)..DaysBeforeYear(LastRefYear + 2)

FromOrdinal ==
    [n \in CalendarDays |->
        LET y == CHOOSE yy \in Years :
                    DaysBeforeYear(yy) < n /\ n <= DaysBeforeYear(yy + 1)
            r == n - DaysBeforeYear(y)
            m == CHOOSE mm \in 1..12 :
                    DaysBeforeMonth(y, mm) < r
                    /\ r <= DaysBeforeMonth(y, mm) + DaysInMonth(y, mm)
        IN  [year |-> y, month |-> m, day |-> r - DaysBeforeMonth(y, m)]]

YearOf(n) == FromOrdinal[n].year
MonthOf(n) == FromOrdinal[n].month
DayOf(n) == FromOrdinal[n].day

\* datetime.weekday(): Monday = 0 .. Sunday = 6
Weekday(n) == (n + 6) % 7

\* Timestamps in half-day ticks
Midnight(n) == 2 * n
EndOfDay(n) == 2 * n + 1
DateOf(t) == t \div 2
AddDays(t, k) == t + 2 * k

\* pd.Timestamp(year=y, month=m, day=d): ValueError when the day is out of
\* range for the month
ValidDate(y, m, d) == d >= 1 /\ d <= DaysInMonth(y, m)
Timestamp(y, m, d) == Midnight(ToOrdinal(y, m, d))

\* Timestamp.replace(year=y) keeps month, day and time of day; ValueError
\* when the day does not exist in year y
CanReplaceYear(t, y) == ValidDate(y, MonthOf(DateOf(t)), DayOf(DateOf(t)))
ReplaceYear(t, y) ==
    2 * ToOrdinal(y, MonthOf(DateOf(t)), DayOf(DateOf(t))) + (t % 2)

\* Timestamp.to_period('W-SUN'): the Monday..Sunday week containing t
WeekStartTime(t) == Midnight(DateOf(t) - Weekday(DateOf(t)))
WeekEndTime(t) == EndOfDay(DateOf(t) + (6 - Weekday(DateOf(t))))

\* inicio + pd.offsets.MonthEnd(n) for inicio the first day of a month:
\* midnight of the last day of that month (n = 0 or 1)
MonthEnd(t) ==
    Timestamp(YearOf(DateOf(t)), MonthOf(DateOf(t)),
              DaysInMonth(YearOf(DateOf(t)), MonthOf(DateOf(t))))

\* ------------------------------------------------------------------------
\* Cells of a result frame: a number or NaN / pd.NA
\* ------------------------------------------------------------------------
NaN == [isna |-> TRUE, v |-> 0]
Val(x) == [isna |-> FALSE, v |-> x]

\* ------------------------------------------------------------------------
\* The input DataFrame: for every date, the metric values of the rows
\* carrying that date, in input order
\* ------------------------------------------------------------------------
FirstDataDay == ToOrdinal(FirstDataYear, 1, 1)
LastDataDay == ToOrdinal(LastRefYear, 12, 31)
DataDays == FirstDataDay..LastDataDay

MetricOf(d) == d % 4

Frame(first, last, gapFrom, gapTo, dupEvery) ==
    [d \in DataDays |->
        IF d < first \/ d > last \/ (gapFrom <= d /\ d <= gapTo) THEN << >>
        ELSE IF dupEvery > 0 /\ d % dupEvery = 0
             THEN << MetricOf(d), MetricOf(d) + 1 >>
             ELSE << MetricOf(d) >>]

FullFrame == Frame(FirstDataDay, LastDataDay, 1, 0, 0)
\* history begins shortly before the second reference year
LateFrame ==
    Frame(ToOrdinal(FirstRefYear, 12, 20), LastDataDay, 1, 0, 0)
\* history stops in the middle of the last reference year
EarlyFrame ==
    Frame(FirstDataDay, ToOrdinal(LastRefYear, 3, 10), 1, 0, 0)
\* seven weeks without rows in the first reference year, the whole of June
\* among them
GapFrame ==
    Frame(FirstDataDay, LastDataDay,
          ToOrdinal(FirstRefYear, 5, 20), ToOrdinal(FirstRefYear, 7, 10), 0)
\* several rows on every fifth date, history stopping in September
DupFrame ==
    Frame(FirstDataDay, ToOrdinal(LastRefYear, 9, 15), 1, 0, 5)
EmptyFrame == Frame(1, 0, 1, 0, 0)
\* twelve days without rows early in the first reference year
HoleFrame ==
    Frame(FirstDataDay, LastDataDay,
          ToOrdinal(FirstRefYear, 2, 20), ToOrdinal(FirstRefYear, 3, 2), 0)
\* the same value on every day of two full calendar years
FlatFrame ==
    [d \in DataDays |->
        IF d <= ToOrdinal(FirstRefYear, 12, 31) THEN << 1 >> ELSE << >>]

\* the input frames, by name
InputFrames ==
    [name \in {"full", "late", "early", "gap", "dup", "empty", "flat", "hole"} |->
        CASE name = "full" -> FullFrame
          [] name = "late" -> LateFrame
          [] name = "early" -> EarlyFrame
          [] name = "gap" -> GapFrame
          [] name = "dup" -> DupFrame
          [] name = "empty" -> EmptyFrame
          [] name = "flat" -> FlatFrame
          [] name = "hole" -> HoleFrame]

RefDates == ToOrdinal(FirstRefYear, 1, 1)..ToOrdinal(LastRefYear, 12, 31)

RowsOn(frame, d) == IF d \in DOMAIN frame THEN frame[d] ELSE << >>

RECURSIVE SumSeq(_)
SumSeq(s) == IF s = << >> THEN 0 ELSE Head(s) + SumSeq(Tail(s))

\* frame[(index >= lo) & (index <= hi)][coluna_metrica].sum()
RECURSIVE SumDays(_, _, _)
SumDays(frame, lo, hi) ==
    IF lo > hi THEN 0
    ELSE IF lo = hi THEN SumSeq(RowsOn(frame, lo))
    ELSE SumDays(frame, lo, (lo + hi) \div 2)
           + SumDays(frame, ((lo + hi) \div 2) + 1, hi)

\* dates with at least one row in [lo, hi]
DatesWithRows(frame, lo, hi) == {d \in lo..hi : RowsOn(frame, d) # << >>}

IsEmpty(frame) == \A d \in DOMAIN frame : frame[d] = << >>

NoRows(frame, lo, hi) == \A d \in lo..hi : RowsOn(frame, d) = << >>

\* earliest and latest date with a row in [lo, hi]: index.min(), index.max()
FirstDate(frame, lo, hi) ==
    CHOOSE d \in lo..hi :
        RowsOn(frame, d) # << >> /\ NoRows(frame, lo, d - 1)

LastDate(frame, lo, hi) ==
    CHOOSE d \in lo..hi :
        RowsOn(frame, d) # << >> /\ NoRows(frame, d + 1, hi)

\* DataFrame.tail(n)
TailN(s, n) == IF Len(s) <= n THEN s ELSE SubSeq(s, Len(s) - n + 1, Len(s))

\* bounds, in dates, of the rows a comparison with a timestamp keeps
FirstDateAfter(t) == (t \div 2) + 1
FirstDateFrom(t) == (t + 1) \div 2
LastDateUpTo(t) == t \div 2

\* ------------------------------------------------------------------------
\* DataFrame.resample(rule).agg({coluna_metrica: 'sum'}) of the rows dated
\* lo..hi: one row per bin from the bin of the first row to the bin of the
\* last row, empty bins in between summing to 0
\* ------------------------------------------------------------------------
\* label of the weekly bin of date d when weeks end on weekday wd
WeekLabel(d, wd) == d + ((wd - Weekday(d) + 7) % 7)

ResampleWeekly(frame, lo, hi, wd) ==
    IF NoRows(frame, lo, hi) THEN << >>
        ELSE LET first == WeekLabel(FirstDate(frame, lo, hi), wd)
                 last == WeekLabel(LastDate(frame, lo, hi), wd)
             IN  [k \in 1..(((last - first) \div 7) + 1) |->
                    LET label == first + 7 * (k - 1)
                        from == IF label - 6 > lo THEN label - 6 ELSE lo
                        to == IF label < hi THEN label ELSE hi
                    IN  [Date |-> Midnight(label),
                         StartDate |-> from,
                         EndDate |-> to,
                         value |-> Val(SumDays(frame, from, to))]]

\* resample('MS') of rows dated lo..hi of one calendar year y: the months
\* from the month of the first row to the month of the last row
ResampleMonthly(frame, y, lo, hi) ==
    IF NoRows(frame, lo, hi) THEN << >>
        ELSE [m \in MonthOf(FirstDate(frame, lo, hi))..MonthOf(LastDate(frame, lo, hi)) |->
                LET first == ToOrdinal(y, m, 1)
                    last == ToOrdinal(y, m, DaysInMonth(y, m))
                IN  SumDays(frame,
                            IF first > lo THEN first ELSE lo,
                            IF last < hi THEN last ELSE hi)]

\* ------------------------------------------------------------------------
\* processar_dados_wbr(df, data_referencia)          (processing.py 40-257)
\* ------------------------------------------------------------------------
ano_atual(data_referencia) == YearOf(DateOf(data_referencia))
ano_anterior(data_referencia) == YearOf(DateOf(data_referencia)) - 1
mes_ref(data_referencia) == MonthOf(DateOf(data_referencia))
dia_ref(data_referencia) == DayOf(DateOf(data_referencia))

fim_semana_completa(data_referencia) == WeekEndTime(data_referencia)

semana_parcial(data_referencia) ==
    data_referencia < fim_semana_completa(data_referencia)

inicio_semana_atual(data_referencia) == WeekStartTime(data_referencia)

fim_semana(data_referencia) ==
    IF semana_parcial(data_referencia) THEN data_referencia
    ELSE fim_semana_completa(data_referencia)

dias_semana_parcial(data_referencia) ==
    IF semana_parcial(data_referencia)
    THEN DateOf(data_referencia) - DateOf(inicio_semana_atual(data_referencia)) + 1
    ELSE 7

\* Semanas CY: rows after fim_semana - 6 weeks up to fim_semana, weekly
\* bins ending on Sunday, last six bins
semanas_cy(frame, data_referencia) ==
    LET inicio_6sem == AddDays(fim_semana(data_referencia), -42)
    IN  TailN(ResampleWeekly(frame,
                             FirstDateAfter(inicio_6sem),
                             LastDateUpTo(fim_semana(data_referencia)),
                             6),
              6)

\* meses_cy with fillna(0) applied to every month, the mask of future
\* months ignored
meses_cy_all_filled(frame, data_referencia) ==
    LET y == YearOf(DateOf(data_referencia))
        df_12m_cy == ResampleMonthly(frame, y,
                                     FirstDateFrom(Timestamp(y, 1, 1)),
                                     LastDateUpTo(data_referencia))
    IN  [m \in 1..12 |->
            IF m \in DOMAIN df_12m_cy THEN Val(df_12m_cy[m]) ELSE Val(0)]

\* Meses CY: monthly sums of 1 January .. data_referencia, reindexed to the
\* twelve months, months up to the reference month filled with 0
meses_cy(frame, data_referencia) ==
    LET y == ano_atual(data_referencia)
        df_12m_cy == ResampleMonthly(frame, y,
                                     FirstDateFrom(Timestamp(y, 1, 1)),
                                     LastDateUpTo(data_referencia))
        reindexed == [m \in 1..12 |->
                        IF m \in DOMAIN df_12m_cy THEN Val(df_12m_cy[m]) ELSE NaN]
    IN  [m \in 1..12 |->
            IF ~(m > mes_ref(data_referencia)) /\ reindexed[m].isna
            THEN Val(0) ELSE reindexed[m]]

inicio_mes_ref(data_referencia) ==
    Timestamp(ano_atual(data_referencia), mes_ref(data_referencia), 1)

fim_mes_ref(data_referencia) == MonthEnd(inicio_mes_ref(data_referencia))

\* dates of dados_mes_ref
dados_mes_ref(frame, data_referencia) ==
    DatesWithRows(frame,
                  FirstDateFrom(inicio_mes_ref(data_referencia)),
                  LastDateUpTo(data_referencia))

\* mes_parcial_cy comparing with <= : the last day of a month counts as
\* partial
mes_parcial_cy_inclusive(frame, data_referencia) ==
    IF dados_mes_ref(frame, data_referencia) # {}
    THEN data_referencia <= fim_mes_ref(data_referencia)
    ELSE FALSE

mes_parcial_cy(frame, data_referencia) ==
    IF dados_mes_ref(frame, data_referencia) # {}
    THEN data_referencia < fim_mes_ref(data_referencia)
    ELSE FALSE

dias_mes_parcial_cy(frame, data_referencia) ==
    Cardinality(dados_mes_ref(frame, data_referencia))

\* year decremented, 29 February falling back to 28 February
fim_ano_py(data_referencia) ==
    IF ValidDate(ano_anterior(data_referencia), mes_ref(data_referencia),
                 dia_ref(data_referencia))
    THEN Timestamp(ano_anterior(data_referencia), mes_ref(data_referencia),
                   dia_ref(data_referencia))
    ELSE Timestamp(ano_anterior(data_referencia), mes_ref(data_referencia), 28)

data_ref_py(data_referencia) ==
    IF CanReplaceYear(data_referencia, ano_anterior(data_referencia))
    THEN ReplaceYear(data_referencia, ano_anterior(data_referencia))
    ELSE Timestamp(ano_anterior(data_referencia), mes_ref(data_referencia), 28)

Min28(d) == IF d < 28 THEN d ELSE 28

\* one pass of the loop "for i in range(6)" building semanas_py
semana_py(frame, data_referencia, i) ==
    LET semanas_atras == 5 - i
        parcial == i = 5 /\ semana_parcial(data_referencia)
        fim_sem_cy ==
            IF parcial THEN data_referencia
            ELSE AddDays(fim_semana(data_referencia), -7 * semanas_atras)
        inicio_sem_cy ==
            IF parcial THEN inicio_semana_atual(data_referencia)
            ELSE AddDays(fim_sem_cy, -6)
        py == ano_anterior(data_referencia)
        replaced == CanReplaceYear(inicio_sem_cy, py) /\ CanReplaceYear(fim_sem_cy, py)
        inicio_sem_py ==
            IF replaced THEN ReplaceYear(inicio_sem_cy, py)
            ELSE Timestamp(py, MonthOf(DateOf(inicio_sem_cy)),
                           Min28(DayOf(DateOf(inicio_sem_cy))))
        fim_sem_py ==
            IF replaced THEN ReplaceYear(fim_sem_cy, py)
            ELSE Timestamp(py, MonthOf(DateOf(fim_sem_cy)),
                           Min28(DayOf(DateOf(fim_sem_cy))))
        from == FirstDateFrom(inicio_sem_py)
        to == LastDateUpTo(fim_sem_py)
        valor_semana ==
            IF ~NoRows(frame, from, to) THEN SumDays(frame, from, to) ELSE 0
    IN  [Date |-> fim_sem_py,
         StartDate |-> from,
         EndDate |-> to,
         value |-> Val(valor_semana)]

semanas_py(frame, data_referencia) ==
    [k \in 1..6 |-> semana_py(frame, data_referencia, k - 1)]

\* pd.Timestamp(year=ano_anterior, month=mes, day=data_referencia.day) of
\* the reference month is built outside any try block
meses_py_raises(data_referencia) ==
    ~ValidDate(ano_anterior(data_referencia), mes_ref(data_referencia),
               dia_ref(data_referencia))

\* mes_py cutting every month, not only the reference month, at the day of
\* the reference date
mes_py_every_month_cut(frame, data_referencia, mes) ==
    LET py == ano_anterior(data_referencia)
        last == DaysInMonth(py, mes)
        cut == IF dia_ref(data_referencia) < last THEN dia_ref(data_referencia)
               ELSE last
    IN  IF mes > mes_ref(data_referencia) THEN NaN
        ELSE Val(SumDays(frame, ToOrdinal(py, mes, 1), ToOrdinal(py, mes, cut)))

\* one pass of the loop "for mes in range(1, 13)" building meses_py
mes_py(frame, data_referencia, mes) ==
    LET py == ano_anterior(data_referencia)
        inicio_mes_py == Timestamp(py, mes, 1)
        fim_mes_py ==
            IF mes = mes_ref(data_referencia)
            THEN Timestamp(py, mes, dia_ref(data_referencia))
            ELSE MonthEnd(inicio_mes_py)
        \* df_ano_py keeps 1 January .. fim_ano_py of the previous year
        lo_ano == FirstDateFrom(Timestamp(py, 1, 1))
        hi_ano == LastDateUpTo(fim_ano_py(data_referencia))
        lo_mes == FirstDateFrom(inicio_mes_py)
        hi_mes == LastDateUpTo(fim_mes_py)
        from == IF lo_mes > lo_ano THEN lo_mes ELSE lo_ano
        to == IF hi_mes < hi_ano THEN hi_mes ELSE hi_ano
    IN  IF mes > mes_ref(data_referencia) THEN NaN
        ELSE IF ~NoRows(frame, from, to)
             THEN Val(SumDays(frame, from, to))
             ELSE Val(0)

meses_py(frame, data_referencia) ==
    [mes \in 1..12 |-> mes_py(frame, data_referencia, mes)]

dias_mes_parcial_py(frame, data_referencia) ==
    IF mes_parcial_cy(frame, data_referencia)
    THEN Cardinality(DatesWithRows(frame,
            FirstDateFrom(Timestamp(ano_anterior(data_referencia),
                                    mes_ref(data_referencia), 1)),
            LastDateUpTo(Timestamp(ano_anterior(data_referencia),
                                   mes_ref(data_referencia),
                                   dia_ref(data_referencia)))))
    ELSE 0

processar_dados_wbr(frame, data_referencia) ==
    IF meses_py_raises(data_referencia)
    THEN [status |-> "ValueError", data_referencia |-> data_referencia]
    ELSE [status |-> "ok",
          data_referencia |-> data_referencia,
          semanas_cy |-> semanas_cy(frame, data_referencia),
          meses_cy |-> meses_cy(frame, data_referencia),
          semanas_py |-> semanas_py(frame, data_referencia),
          meses_py |-> meses_py(frame, data_referencia),
          mes_parcial_cy |-> mes_parcial_cy(frame, data_referencia),
          dias_mes_parcial_cy |-> dias_mes_parcial_cy(frame, data_referencia),
          mes_parcial_py |-> mes_parcial_cy(frame, data_referencia),
          dias_mes_parcial_py |-> dias_mes_parcial_py(frame, data_referencia),
          semana_parcial |-> semana_parcial(data_referencia),
          dias_semana_parcial |-> dias_semana_parcial(data_referencia),
          ano_atual |-> ano_atual(data_referencia),
          ano_anterior |-> ano_anterior(data_referencia)]

\* ------------------------------------------------------------------------
\* compute_trailing_weeks(daily_df, cfg), fill_missing_weeks=True, with
\* cfg.aggf = {metric: 'sum'}                        (processing.py 264-482)
\* ------------------------------------------------------------------------
\* df.groupby('Date').agg(sum): one row per date
GroupBySum(frame) ==
    [d \in DOMAIN frame |->
        IF frame[d] = << >> THEN << >> ELSE << SumSeq(frame[d]) >>]

HasDuplicates(frame) == \E d \in DOMAIN frame : Len(frame[d]) > 1

\* DataFrame.sort_values on the date of the rows (insertion sort)
RECURSIVE InsertByDate(_, _)
InsertByDate(row, sorted) ==
    IF sorted = << >> THEN << row >>
    ELSE IF row.Date < Head(sorted).Date THEN << row >> \o sorted
    ELSE << Head(sorted) >> \o InsertByDate(row, Tail(sorted))

RECURSIVE SortByDate(_)
SortByDate(rows) ==
    IF rows = << >> THEN << >>
    ELSE InsertByDate(rows[Len(rows)], SortByDate(SubSeq(rows, 1, Len(rows) - 1)))

\* A_i = week_ending - 7*(N-1-i) days, i = 0..N-1
week_anchor(week_ending, trailing_weeks, i) ==
    AddDays(week_ending, -((trailing_weeks - 1 - i) * 7))

\* week_start one day too early: an 8-day span
week_start_8_days(week_end) == AddDays(week_end, -7)

week_start(week_end) == AddDays(week_end, -6)

\* one pass of the loop over week_boundaries
week_result(df_work, week_ending, trailing_weeks, week_idx) ==
    LET week_end == week_anchor(week_ending, trailing_weeks, week_idx)
        from == FirstDateFrom(week_start(week_end))
        to == LastDateUpTo(week_end)
    IN  [WeekIndex |-> week_idx + 1,
         StartDate |-> week_start(week_end),
         EndDate |-> week_end,
         Date |-> week_end,
         value |-> IF NoRows(df_work, from, to) THEN Val(0)
                   ELSE Val(SumDays(df_work, from, to))]

compute_trailing_weeks(daily_df, week_ending, trailing_weeks) ==
    IF IsEmpty(daily_df)
    THEN [status |-> "ValueError", week_ending |-> week_ending,
          trailing_weeks |-> trailing_weeks]
    ELSE LET df_work == IF HasDuplicates(daily_df) THEN GroupBySum(daily_df)
                        ELSE daily_df
             weekly_results ==
                 [k \in 1..trailing_weeks |->
                     week_result(df_work, week_ending, trailing_weeks, k - 1)]
         IN  [status |-> "ok", week_ending |-> week_ending,
              trailing_weeks |-> trailing_weeks,
              result_df |-> SortByDate(weekly_results)]

\* ------------------------------------------------------------------------
\* create_trailing_six_weeks(df, week_ending, {metric: 'sum'}, num_weeks)
\*                                                  (wbr_utility.py 130-236)
\* ------------------------------------------------------------------------
\* DataValidator.validate_dataframe(...).is_valid for a frame that has the
\* date column and the aggregated column
validate_dataframe(frame) == ~IsEmpty(frame)

\* create_new_row: every column pd.NA but the date
create_new_row(week_end_date) == [Date |-> week_end_date, value |-> NaN]

\* padding that stops one row short
RECURSIVE pad_weeks_one_short(_, _, _)
pad_weeks_one_short(weekly, earliest_week, num_weeks) ==
    IF Len(weekly) < num_weeks - 1
    THEN pad_weeks_one_short(
             << create_new_row(AddDays(earliest_week, -7)) >> \o weekly,
             AddDays(earliest_week, -7), num_weeks)
    ELSE weekly

\* while len(weekly) < num_weeks: prepend a row dated 7 days earlier
RECURSIVE pad_weeks(_, _, _)
pad_weeks(weekly, earliest_week, num_weeks) ==
    IF Len(weekly) < num_weeks
    THEN pad_weeks(<< create_new_row(AddDays(earliest_week, -7)) >> \o weekly,
                   AddDays(earliest_week, -7), num_weeks)
    ELSE weekly

create_trailing_six_weeks(frame, week_ending, num_weeks) ==
    IF ~validate_dataframe(frame)
    THEN [status |-> "WBRValidationError"]
    ELSE LET days_to_look_back == (num_weeks * 7) - 1
             start_date == AddDays(week_ending, -days_to_look_back)
             \* rule week_map[week_ending.isoweekday()]
             resampled == ResampleWeekly(frame,
                                         FirstDateFrom(start_date),
                                         LastDateUpTo(week_ending),
                                         Weekday(DateOf(week_ending)))
             weekly == [k \in 1..Len(resampled) |->
                          [Date |-> resampled[k].Date,
                           value |-> resampled[k].value]]
             earliest_week == IF weekly = << >> THEN week_ending
                              ELSE weekly[1].Date
             padded == pad_weeks(weekly, earliest_week, num_weeks)
         IN  [status |-> "ok",
              weekly |-> TailN(SortByDate(padded), num_weeks)]

\* ------------------------------------------------------------------------
\* WBRCalculator.__init__                            (wbr_metrics.py 80-201)
\* ------------------------------------------------------------------------
\* prepare_data_for_wbr: sort by date, drop_duplicates(subset=[date]).  The
\* sort is not stable, so the row kept for a date is any one of its rows;
\* keep is the position the sort leaves first.
prepare_data_for_wbr(frame, keep) ==
    [d \in DOMAIN frame |->
        IF frame[d] = << >> THEN << >>
        ELSE << frame[d][IF keep <= Len(frame[d]) THEN keep ELSE Len(frame[d])] >>]

\* daily_df[(date >= lo) & (date <= hi)]
RowsBetween(frame, lo, hi) ==
    [d \in DOMAIN frame |-> IF lo <= d /\ d <= hi THEN frame[d] ELSE << >>]

NaT == -1

\* the all-NA frame built when the previous-year period has no rows
empty_py_window(num_weeks) == [k \in 1..num_weeks |-> [Date |-> NaT, value |-> NaN]]

build_py_window(daily_df, week_ending, num_weeks) ==
    LET py_week_ending == AddDays(week_ending, -364)
        days_back == (num_weeks * 7) - 1
        py_start == AddDays(py_week_ending, -days_back)
        py_daily == RowsBetween(daily_df, FirstDateFrom(py_start),
                                LastDateUpTo(py_week_ending))
    IN  IF IsEmpty(py_daily) THEN empty_py_window(num_weeks)
        ELSE create_trailing_six_weeks(py_daily, py_week_ending, num_weeks).weekly

\* F applied to the value of x
Bind(F(_), x) == CHOOSE r \in {F(v) : v \in {x}} : TRUE

\* a dict with no key
EmptyDict == [n \in {} |-> 0]

\* d[k] = x
Put(d, k, x) == [n \in (DOMAIN d) \cup {k} |-> IF n = k THEN x ELSE d[n]]

WBRCalculator(frame, week_ending, num_weeks, keep, value_metrics, ratio_metrics) ==
    LET daily_df == prepare_data_for_wbr(frame, keep)
    IN  IF ~validate_dataframe(daily_df)
        THEN [status |-> "WBRValidationError"]
        \* _validate_metric_classification
        ELSE IF value_metrics \cap ratio_metrics # {}
        THEN [status |-> "ValueError"]
        ELSE [status |-> "ok",
              week_ending |-> week_ending,
              num_weeks |-> num_weeks,
              value_metrics |-> value_metrics,
              ratio_metrics |-> ratio_metrics,
              metric_definitions |-> EmptyDict,
              cy_trailing_six_weeks |->
                  create_trailing_six_weeks(daily_df, week_ending, num_weeks).weekly,
              py_trailing_six_weeks |->
                  build_py_window(daily_df, week_ending, num_weeks),
              derived_cy |-> EmptyDict,
              derived_py |-> EmptyDict,
              wow_cache |-> EmptyDict,
              yoy_cache |-> EmptyDict]

\* ------------------------------------------------------------------------
\* Arithmetic on window cells                        (wbr_metrics.py 203-649)
\* A cell is NaN, an integer Val(x), a fraction v/den in lowest terms with
\* den > 1, or an infinity of sign v.
\* ------------------------------------------------------------------------
Abs(x) == IF x < 0 THEN -x ELSE x
Sign(x) == IF x < 0 THEN -1 ELSE IF x > 0 THEN 1 ELSE 0

RECURSIVE Gcd(_, _)
Gcd(a, b) == IF b = 0 THEN a ELSE Gcd(b, a % b)

Inf(sign) == [isna |-> FALSE, v |-> sign, inf |-> TRUE]
IsInf(c) == "inf" \in DOMAIN c
IsNum(c) == ~c.isna /\ ~IsInf(c)
NumOf(c) == c.v
DenOf(c) == IF "den" \in DOMAIN c THEN c.den ELSE 1
IsZero(c) == IsNum(c) /\ c.v = 0
SignOf(c) == Sign(c.v)

\* the cell holding n / d, d # 0
Ratio(n, d) ==
    LET g == Gcd(Abs(n), Abs(d))
        num == (Sign(d) * n) \div g
        den == Abs(d) \div g
    IN  IF den = 1 THEN Val(num) ELSE [isna |-> FALSE, v |-> num, den |-> den]

\* a * b
Mul(a, b) ==
    IF a.isna \/ b.isna THEN NaN
    ELSE IF IsInf(a) \/ IsInf(b)
         THEN IF IsZero(a) \/ IsZero(b) THEN NaN
              ELSE Inf(SignOf(a) * SignOf(b))
         ELSE Ratio(NumOf(a) * NumOf(b), DenOf(a) * DenOf(b))

\* a + b
Add(a, b) ==
    IF a.isna \/ b.isna THEN NaN
    ELSE IF IsInf(a) /\ IsInf(b)
         THEN IF SignOf(a) = SignOf(b) THEN a ELSE NaN
         ELSE IF IsInf(a) THEN a
         ELSE IF IsInf(b) THEN b
         ELSE Ratio(NumOf(a) * DenOf(b) + NumOf(b) * DenOf(a),
                    DenOf(a) * DenOf(b))

\* -a
Neg(a) ==
    IF a.isna THEN NaN
    ELSE IF IsInf(a) THEN Inf(-SignOf(a))
    ELSE Ratio(-NumOf(a), DenOf(a))

\* a - b
Sub(a, b) == Add(a, Neg(b))

\* a / b in floating point: a finite value over 0 is an infinity, 0 / 0 is
\* NaN
Div(a, b) ==
    IF a.isna \/ b.isna THEN NaN
    ELSE IF IsInf(a)
         THEN IF IsInf(b) THEN NaN
              ELSE Inf(SignOf(a) * (IF SignOf(b) < 0 THEN -1 ELSE 1))
         ELSE IF IsInf(b) THEN Val(0)
         ELSE IF IsZero(b)
              THEN IF IsZero(a) THEN NaN ELSE Inf(SignOf(a))
              ELSE Ratio(NumOf(a) * DenOf(b), DenOf(a) * NumOf(b))

\* a > b
Greater(a, b) ==
    IF a.isna \/ b.isna THEN FALSE
    ELSE IF IsInf(a) THEN SignOf(a) > 0 /\ ~(IsInf(b) /\ SignOf(b) > 0)
    ELSE IF IsInf(b) THEN SignOf(b) < 0
    ELSE NumOf(a) * DenOf(b) > NumOf(b) * DenOf(a)

\* ------------------------------------------------------------------------
\* Derived metrics of a WBRCalculator                (wbr_metrics.py 203-325)
\* ------------------------------------------------------------------------
\* the aggregated column of a weekly window (the Date column is never a
\* dependency here)
BaseColumns == {"metric_value"}

BaseSeries(window) == [k \in 1..Len(window) |-> window[k].value]

\* a window that was padded with pd.NA rows holds its values as Python
\* objects, a window that was not holds machine numbers
IsObject(window) == \E k \in 1..Len(window) : window[k].value.isna

base_window(c, year) ==
    IF year = "cy" THEN c.cy_trailing_six_weeks ELSE c.py_trailing_six_weeks

derived(c, year) == IF year = "cy" THEN c.derived_cy ELSE c.derived_py

\* _validate_columns_exist: no exception
validate_columns_exist(c, columns) ==
    columns \subseteq (BaseColumns \cup DOMAIN c.derived_cy)

\* _get_column(df, col)
get_column(c, year, col) ==
    IF col \in BaseColumns
    THEN [raised |-> "none", series |-> BaseSeries(base_window(c, year))]
    ELSE IF col \in DOMAIN c.derived_cy
         THEN IF col \in DOMAIN derived(c, year)
              THEN [raised |-> "none", series |-> derived(c, year)[col]]
              ELSE [raised |-> "KeyError", series |-> << >>]
         ELSE [raised |-> "ValueError", series |-> << >>]

\* a division of Python objects raises on a zero divisor
ZeroDivision(numerator, denominator) ==
    \E k \in 1..Len(numerator) :
        ~numerator[k].isna /\ IsZero(denominator[k])

\* _safe_divide on machine numbers, or on objects with no zero divisor
safe_divide(numerator, denominator, handle_zero) ==
    LET result == [k \in 1..Len(numerator) |-> Div(numerator[k], denominator[k])]
    IN  IF handle_zero = "nan" THEN result
        ELSE IF handle_zero = "zero"
             THEN [k \in 1..Len(result) |->
                     IF result[k].isna THEN Val(0) ELSE result[k]]
             ELSE [k \in 1..Len(result) |->
                     IF IsInf(result[k]) THEN NaN ELSE result[k]]

\* the right-hand side of "self.derived_xx[name] = ..." for one window
evaluate(c, year, formula, col_a, col_b, handle_zero) ==
    LET a == get_column(c, year, col_a)
        b == get_column(c, year, col_b)
    IN  IF a.raised # "none" THEN a
        ELSE IF b.raised # "none" THEN b
        ELSE IF formula = "product"
             THEN [raised |-> "none",
                   series |-> [k \in 1..Len(a.series) |->
                                  Mul(a.series[k], b.series[k])]]
        ELSE IF formula = "diff"
             THEN [raised |-> "none",
                   series |-> [k \in 1..Len(a.series) |->
                                  Sub(a.series[k], b.series[k])]]
        ELSE IF IsObject(base_window(c, year)) /\ ZeroDivision(a.series, b.series)
             THEN [raised |-> "ZeroDivisionError", series |-> << >>]
             ELSE [raised |-> "none",
                   series |-> safe_divide(a.series, b.series, handle_zero)]

MetricDefinition(formula, metric_type, dependencies) ==
    [formula |-> formula, metric_type |-> metric_type,
     dependencies |-> dependencies]

\* the body shared by add_product_metric, add_diff_metric and
\* add_div_metric: validate, write the definition, then the CY column, then
\* the PY column; an exception leaves what was written before it
add_metric(c, name, formula, metric_type, col_a, col_b, handle_zero) ==
    IF ~validate_columns_exist(c, {col_a, col_b})
    THEN [calc |-> c, raised |-> "ValueError"]
    ELSE LET c1 == [c EXCEPT !.metric_definitions =
                       Put(@, name,
                           MetricDefinition(formula, metric_type,
                                            << col_a, col_b >>))]
             cy == evaluate(c1, "cy", formula, col_a, col_b, handle_zero)
             c2 == [c1 EXCEPT !.derived_cy = Put(@, name, cy.series)]
             py == evaluate(c2, "py", formula, col_a, col_b, handle_zero)
             c3 == [c2 EXCEPT !.derived_py = Put(@, name, py.series)]
         IN  IF cy.raised # "none" THEN [calc |-> c1, raised |-> cy.raised]
             ELSE IF py.raised # "none" THEN [calc |-> c2, raised |-> py.raised]
             ELSE [calc |-> c3, raised |-> "none"]

add_product_metric(c, name, col_a, col_b) ==
    add_metric(c, name, "product", "value", col_a, col_b, "nan")

add_diff_metric(c, name, col_a, col_b) ==
    add_metric(c, name, "diff", "value", col_a, col_b, "nan")

add_div_metric(c, name, numerator, denominator, handle_zero) ==
    add_metric(c, name, "div", "ratio", numerator, denominator, handle_zero)

\* add_custom_metric with func = lambda df: df[col_a] + df[col_b]: func is
\* handed the base window only, and any exception becomes a ValueError
add_custom_metric(c, name, col_a, col_b) ==
    IF ~validate_columns_exist(c, {col_a, col_b})
    THEN [calc |-> c, raised |-> "ValueError"]
    ELSE LET c1 == [c EXCEPT !.metric_definitions =
                       Put(@, name,
                           MetricDefinition("custom", "value",
                                            << col_a, col_b >>))]
             func(window) ==
                 [k \in 1..Len(window) |->
                     \* both columns are the aggregated column
                     Add(BaseSeries(window)[k], BaseSeries(window)[k])]
         IN  IF ~({col_a, col_b} \subseteq BaseColumns)
             THEN [calc |-> c1, raised |-> "ValueError"]
             ELSE [calc |-> [c1 EXCEPT
                               !.derived_cy =
                                   Put(@, name, func(c.cy_trailing_six_weeks)),
                               !.derived_py =
                                   Put(@, name, func(c.py_trailing_six_weeks))],
                   raised |-> "none"]

\* ------------------------------------------------------------------------
\* Comparisons of a WBRCalculator                    (wbr_metrics.py 327-443)
\* ------------------------------------------------------------------------
None == [none |-> TRUE]
IsNone(x) == "none" \in DOMAIN x

PyBool(b) == IF b THEN "True" ELSE "False"

ComparisonResult(comparison_type, current_value, previous_value, absolute_change, percent_change, is_improvement) ==
    [comparison_type |-> comparison_type,
     current_value |-> current_value,
     previous_value |-> previous_value,
     absolute_change |-> absolute_change,
     percent_change |-> percent_change,
     is_improvement |-> is_improvement]

\* the result returned when values are missing
MissingResult(comparison_type) ==
    ComparisonResult(comparison_type, NaN, NaN, NaN, None, "None")

\* _get_metric_series(metric, year)
get_metric_series(c, metric, year) ==
    IF metric \in DOMAIN derived(c, year) THEN derived(c, year)[metric]
    ELSE IF metric \in BaseColumns THEN BaseSeries(base_window(c, year))
    ELSE << >>

dropna(series) == SelectSeq(series, LAMBDA x : ~x.isna)

\* None if previous == 0 else ((current / previous - 1) * 100)
percent_change(current, previous) ==
    IF IsZero(previous) THEN None
    ELSE Mul(Sub(Div(current, previous), Val(1)), Val(100))

\* "Decimal(str(percent_change)) if percent_change else None": a change of
\* 0 is falsy
decimal_or_none(change) ==
    IF IsNone(change) \/ IsZero(change) THEN None ELSE change

\* _compute_wow_single(series, metric, year_label)
compute_wow_single(c, series, metric) ==
    LET valid_values == dropna(series)
        current == valid_values[Len(valid_values)]
        previous == valid_values[Len(valid_values) - 1]
        absolute_change == Sub(current, previous)
        is_improvement ==
            IF metric \in c.ratio_metrics \/ metric \in c.value_metrics
            THEN PyBool(Greater(absolute_change, Val(0)))
            ELSE "None"
    IN  IF Len(valid_values) < 2 THEN MissingResult("WOW")
        ELSE ComparisonResult("WOW", current, previous, absolute_change,
                              decimal_or_none(percent_change(current, previous)),
                              is_improvement)

\* the body of compute_wow(metric)
wow(c, metric) ==
    [CY |-> compute_wow_single(c, get_metric_series(c, metric, "cy"), metric),
     PY |-> compute_wow_single(c, get_metric_series(c, metric, "py"), metric)]

\* the body of compute_yoy_last_week(metric)
yoy_last_week(c, metric) ==
    LET cy_valid == dropna(get_metric_series(c, metric, "cy"))
        py_valid == dropna(get_metric_series(c, metric, "py"))
        cy_last == cy_valid[Len(cy_valid)]
        py_last == py_valid[Len(py_valid)]
        absolute_change == Sub(cy_last, py_last)
    IN  IF cy_valid = << >> \/ py_valid = << >> THEN MissingResult("YOY")
        ELSE ComparisonResult("YOY", cy_last, py_last, absolute_change,
                              decimal_or_none(percent_change(cy_last, py_last)),
                              PyBool(Greater(absolute_change, Val(0))))

\* _get_metric_type(metric)
get_metric_type(c, metric) ==
    IF metric \in DOMAIN c.metric_definitions
    THEN c.metric_definitions[metric].metric_type
    ELSE IF metric \in c.ratio_metrics THEN "ratio"
    ELSE IF metric \in c.value_metrics THEN "value"
    ELSE "count"

\* @lru_cache(maxsize=128): a call with an argument seen before returns what
\* the first call returned
compute_wow(c, metric) ==
    IF metric \in DOMAIN c.wow_cache
    THEN [calc |-> c, result |-> c.wow_cache[metric]]
    ELSE [calc |-> [c EXCEPT !.wow_cache = Put(@, metric, wow(c, metric))],
          result |-> wow(c, metric)]

compute_yoy_last_week(c, metric) ==
    IF metric \in DOMAIN c.yoy_cache
    THEN [calc |-> c, result |-> c.yoy_cache[metric]]
    ELSE [calc |-> [c EXCEPT !.yoy_cache =
                       Put(@, metric, yoy_last_week(c, metric))],
          result |-> yoy_last_week(c, metric)]

\* ------------------------------------------------------------------------
\* Arguments of calcular_kpis and calcular_metricas_wbr
\* ------------------------------------------------------------------------
\* the data_referencia argument: None, a date or Timestamp, or a string
\* holding a date
NoneArg == [kind |-> "None"]
DateArg(t) == [kind |-> "date", value |-> t]
StrArg(t) == [kind |-> "str", value |-> t]

\* the df argument: its column names and its rows
DataFrame(columns, rows) == [columns |-> columns, rows |-> rows]

\* df[coluna_data].min() and .max(), NaT for a frame without rows
date_range(frame) ==
    IF IsEmpty(frame) THEN [min |-> NaT, max |-> NaT]
    ELSE [min |-> FirstDate(frame, FirstDataDay, LastDataDay),
          max |-> LastDate(frame, FirstDataDay, LastDataDay)]

\* pd.to_datetime(data_referencia), or the latest date of the frame
reference_of(df_arg, data_referencia) ==
    IF data_referencia.kind = "None"
    THEN DateArg(IF IsEmpty(df_arg.rows) THEN NaT
                 ELSE Midnight(date_range(df_arg.rows).max))
    ELSE DateArg(data_referencia.value)

\* ------------------------------------------------------------------------
\* WBRCalculator.get_dashboard_kpis and calcular_kpis
\*                                                   (wbr_metrics.py 500-720)
\* ------------------------------------------------------------------------
\* Series.sum(): the cells that are not null added up
RECURSIVE SumCells(_)
SumCells(series) ==
    IF series = << >> THEN Val(0)
    ELSE IF Head(series).isna THEN SumCells(Tail(series))
    ELSE Add(Head(series), SumCells(Tail(series)))

\* 0 unless previous # 0, then (current / previous - 1) * 100
pct_or_zero(current, previous) ==
    IF IsZero(previous) THEN Val(0)
    ELSE Mul(Sub(Div(current, previous), Val(1)), Val(100))

\* the safe defaults returned when anything raises
DefaultKpis ==
    [ultima_semana |-> Val(0), var_semanal |-> Val(0), yoy_semanal |-> Val(0),
     mes_atual |-> Val(0), yoy_mensal |-> Val(0),
     trimestre_atual |-> Val(0), yoy_trimestral |-> Val(0),
     ano_atual |-> Val(0), yoy_anual |-> Val(0),
     wow_pct |-> Val(0), wow_abs |-> Val(0),
     mtd_atual |-> Val(0), mtd_pct |-> Val(0)]

\* a null cell counts as 0
or_zero(cell) == IF cell.isna THEN Val(0) ELSE cell

get_dashboard_kpis(c) ==
    LET cy_series == BaseSeries(c.cy_trailing_six_weeks)
        py_series == BaseSeries(c.py_trailing_six_weeks)
        ultima_semana == or_zero(cy_series[6])
        semana_anterior == or_zero(cy_series[5])
        ultima_semana_py == or_zero(py_series[6])
        wow_pct == pct_or_zero(ultima_semana, semana_anterior)
        wow_abs == Sub(ultima_semana, semana_anterior)
        yoy_pct == pct_or_zero(ultima_semana, ultima_semana_py)
        mes_atual == SumCells(cy_series)
        mes_anterior == SumCells(py_series)
        mtd_pct == pct_or_zero(mes_atual, mes_anterior)
    IN  \* iloc[5] of a window shorter than 6 rows raises IndexError
        IF Len(cy_series) < 6 \/ Len(py_series) < 6 THEN DefaultKpis
        ELSE [ultima_semana |-> ultima_semana,
              var_semanal |-> wow_pct,
              yoy_semanal |-> yoy_pct,
              mes_atual |-> mes_atual,
              yoy_mensal |-> mtd_pct,
              trimestre_atual |-> mes_atual,
              yoy_trimestral |-> mtd_pct,
              ano_atual |-> mes_atual,
              yoy_anual |-> mtd_pct,
              wow_pct |-> wow_pct,
              wow_abs |-> wow_abs,
              mtd_atual |-> mes_atual,
              mtd_pct |-> mtd_pct]

\* the try block of calcular_kpis once the calculator is built
kpis_constructed(df_arg, calculator) ==
    IF calculator.status # "ok"
    THEN [raised |-> calculator.status, result |-> [status |-> "none"]]
    \* without a numeric column get_dashboard_kpis raises and catches
    \* ValueError
    ELSE IF "metric_value" \notin df_arg.columns
    THEN [raised |-> "none", result |-> DefaultKpis]
    ELSE [raised |-> "none", result |-> get_dashboard_kpis(calculator)]

\* the try block of calcular_kpis of wbr_metrics.py: a calculator over the
\* default 6 weeks with every numeric column a value metric
kpis_try(df_arg, data_referencia, keep) ==
    \* prepare_data_for_wbr reads df[date_column]
    IF "date" \notin df_arg.columns
    THEN [raised |-> "KeyError", result |-> [status |-> "none"]]
    ELSE Bind(LAMBDA calculator : kpis_constructed(df_arg, calculator),
              WBRCalculator(df_arg.rows,
                            reference_of(df_arg, data_referencia).value,
                            6, keep, BaseColumns, {}))

\* an except branch that hands the exception on
calcular_kpis_reraising(df_arg, data_referencia, keep) ==
    kpis_try(df_arg, data_referencia, keep)

\* calcular_kpis: whatever the try block raises is answered with the safe
\* defaults
calcular_kpis(df_arg, data_referencia, keep) ==
    Bind(LAMBDA tried : IF tried.raised # "none"
                        THEN [raised |-> "none", result |-> DefaultKpis]
                        ELSE tried,
         kpis_try(df_arg, data_referencia, keep))

\* ------------------------------------------------------------------------
\* calcular_kpis of the dashboard                         (wbr/kpis.py 4-105)
\* ------------------------------------------------------------------------
\* date.isocalendar()[1]: the week of the ISO year holding the Thursday of
\* the date's week
IsoThursday(d) == d - Weekday(d) + 3
IsoWeek(d) ==
    ((IsoThursday(d) - ToOrdinal(YearOf(IsoThursday(d)), 1, 1)) \div 7) + 1

\* Monday of ISO week 1 of year y: the week holding 4 January
IsoWeek1Monday(y) == ToOrdinal(y, 1, 4) - Weekday(ToOrdinal(y, 1, 4))

\* number of ISO weeks of year y
IsoWeeksInYear(y) ==
    ((IsoWeek1Monday(y + 1) - IsoWeek1Monday(y)) \div 7)

\* date.fromisocalendar(y, week, 7), ValueError for a week y does not have
\* answered with week 52
FromIsoCalendarSunday(y, week) ==
    IF week <= IsoWeeksInYear(y) THEN IsoWeek1Monday(y) + 7 * (week - 1) + 6
    ELSE IsoWeek1Monday(y) + 7 * 51 + 6

\* ts - DateOffset(years=1): 29 February becomes 28 February
MinusOneYear(d) ==
    LET y == YearOf(d) - 1
        last == DaysInMonth(y, MonthOf(d))
    IN  ToOrdinal(y, MonthOf(d), IF DayOf(d) < last THEN DayOf(d) ELSE last)

\* _safe_div(num, den) * 100
safe_div_pct(num, den) ==
    IF den > 0 THEN Mul(Ratio(num, den), Val(100)) ELSE Val(0)

kpis_calcular_kpis(frame, data_referencia) ==
    LET ref == DateOf(data_referencia)
        fim_semana_calendario == DateOf(WeekEndTime(data_referencia))
        inicio_semana_calendario == fim_semana_calendario - 6
        ultima_semana == SumDays(frame, inicio_semana_calendario, ref)
        dias_decorridos_na_semana == ref - inicio_semana_calendario
        inicio_semana_anterior == inicio_semana_calendario - 7
        fim_periodo_anterior == inicio_semana_anterior + dias_decorridos_na_semana
        semana_anterior ==
            SumDays(frame, inicio_semana_anterior, fim_periodo_anterior)
        semana_atual_iso == IsoWeek(fim_semana_calendario)
        py == YearOf(ref) - 1
        fim_semana_py == FromIsoCalendarSunday(py, semana_atual_iso)
        inicio_semana_py == fim_semana_py - 6
        fim_periodo_py == inicio_semana_py + dias_decorridos_na_semana
        semana_anterior_py == SumDays(frame, inicio_semana_py, fim_periodo_py)
        inicio_mes == ToOrdinal(YearOf(ref), MonthOf(ref), 1)
        mes_atual == SumDays(frame, inicio_mes, ref)
        mes_anterior == SumDays(frame, MinusOneYear(inicio_mes), MinusOneYear(ref))
        inicio_trimestre ==
            ToOrdinal(YearOf(ref), ((MonthOf(ref) - 1) \div 3) * 3 + 1, 1)
        trimestre_atual == SumDays(frame, inicio_trimestre, ref)
        trimestre_py ==
            SumDays(frame, MinusOneYear(inicio_trimestre), MinusOneYear(ref))
        inicio_ano == ToOrdinal(YearOf(ref), 1, 1)
        ano_corrente == SumDays(frame, inicio_ano, ref)
        ano_py == SumDays(frame, MinusOneYear(inicio_ano), MinusOneYear(ref))
    IN  [ultima_semana |-> Val(ultima_semana),
         mes_atual |-> Val(mes_atual),
         trimestre_atual |-> Val(trimestre_atual),
         ano_atual |-> Val(ano_corrente),
         var_semanal |-> safe_div_pct(ultima_semana - semana_anterior, semana_anterior),
         yoy_semanal |-> safe_div_pct(ultima_semana - semana_anterior_py,
                                     semana_anterior_py),
         yoy_mensal |-> safe_div_pct(mes_atual - mes_anterior, mes_anterior),
         yoy_trimestral |-> safe_div_pct(trimestre_atual - trimestre_py, trimestre_py),
         yoy_anual |-> safe_div_pct(ano_corrente - ano_py, ano_py),
         yoy_pct |-> safe_div_pct(ultima_semana - semana_anterior_py,
                                     semana_anterior_py),
         yoy_abs |-> Val(ultima_semana - semana_anterior_py),
         wow_pct |-> safe_div_pct(ultima_semana - semana_anterior, semana_anterior),
         wow_abs |-> Val(ultima_semana - semana_anterior),
         mtd_atual |-> Val(mes_atual),
         mtd_pct |-> safe_div_pct(mes_atual - mes_anterior, mes_anterior)]

\* ------------------------------------------------------------------------
\* export_trailing, export_summary, get_metrics_for_streamlit
\*                                                   (wbr_metrics.py 445-498)
\* ------------------------------------------------------------------------
Range(seq) == {seq[k] : k \in 1..Len(seq)}

\* the salts the interpreter can hash strings with
HashSeeds == {1, 2}

\* where a string falls in a set's hash table under a salt
hash_slot(name, hashseed) ==
    LET natural == CASE name = "metric_value" -> 1
                     [] name = "m1" -> 2
                     [] OTHER -> 3
    IN  IF hashseed = 1 THEN natural ELSE 4 - natural

set_first(S, hashseed) ==
    CHOOSE m \in S :
        \A n \in S : hash_slot(m, hashseed) <= hash_slot(n, hashseed)

\* "for metric in all_metrics": a set is iterated in the order of its hash
\* table
RECURSIVE set_iteration(_, _)
set_iteration(S, hashseed) ==
    IF S = {} THEN << >>
    ELSE << set_first(S, hashseed) >>
           \o set_iteration(S \ {set_first(S, hashseed)}, hashseed)

\* export_trailing: the windows with the derived columns beside them
export_trailing(c) ==
    [cy |-> [k \in 1..Len(c.cy_trailing_six_weeks) |->
                [Date |-> c.cy_trailing_six_weeks[k].Date,
                 value |-> c.cy_trailing_six_weeks[k].value,
                 derived |-> [m \in DOMAIN c.derived_cy |-> c.derived_cy[m][k]]]],
     py |-> [k \in 1..Len(c.py_trailing_six_weeks) |->
                [Date |-> c.py_trailing_six_weeks[k].Date,
                 value |-> c.py_trailing_six_weeks[k].value,
                 derived |-> [m \in DOMAIN c.derived_py |-> c.derived_py[m][k]]]]]

\* one row of the summary
summary_row(c, metric) ==
    [Metric |-> metric,
     Current_Week |-> compute_wow(c, metric).result.CY.current_value,
     Previous_Week |-> compute_wow(c, metric).result.CY.previous_value,
     WOW_pct |-> compute_wow(c, metric).result.CY.percent_change,
     YOY_pct |-> compute_yoy_last_week(c, metric).result.percent_change,
     Type |-> get_metric_type(c, metric)]

RECURSIVE export_summary_rows(_, _, _)
export_summary_rows(c, metrics, rows) ==
    IF metrics = << >> THEN [calc |-> c, rows |-> rows]
    ELSE export_summary_rows(
             compute_yoy_last_week(compute_wow(c, Head(metrics)).calc,
                                   Head(metrics)).calc,
             Tail(metrics),
             Append(rows, summary_row(c, Head(metrics))))

\* export_summary: one row per metric of
\* set(aggregation_map.keys()) | set(derived_cy.columns)
export_summary(c, hashseed) ==
    export_summary_rows(
        c, set_iteration(BaseColumns \cup DOMAIN c.derived_cy, hashseed), << >>)

\* a comparison of the column WOW_% with 0 is False on None
Positive(change) == ~IsNone(change) /\ Greater(change, Val(0))
Negative(change) == ~IsNone(change) /\ Greater(Val(0), change)

get_metrics_for_streamlit(c, hashseed) ==
    LET summary == export_summary(c, hashseed)
    IN  [calc |-> summary.calc,
         result |->
             [current_year |-> export_trailing(c).cy,
              previous_year |-> export_trailing(c).py,
              summary |-> summary.rows,
              metrics |->
                  [total_metrics |-> Len(summary.rows),
                   improved_metrics |->
                       Len(SelectSeq(summary.rows,
                                     LAMBDA row : Positive(row.WOW_pct))),
                   declined_metrics |->
                       Len(SelectSeq(summary.rows,
                                     LAMBDA row : Negative(row.WOW_pct)))]]]

\* ------------------------------------------------------------------------
\* calcular_metricas_wbr                                 (core/wbr.py 49-207)
\* ------------------------------------------------------------------------
\* one entry of metricas_derivadas
DerivedConfig(name, type, col_a, col_b) ==
    [name |-> name, type |-> type, col_a |-> col_a, col_b |-> col_b,
     handle_zero |-> "nan"]

\* one pass of "for metric_name, config in metricas_derivadas.items()"
add_derived_metric(c, config) ==
    IF config.type = "division"
    THEN add_div_metric(c, config.name, config.col_a, config.col_b,
                        config.handle_zero)
    ELSE IF config.type = "product"
    THEN add_product_metric(c, config.name, config.col_a, config.col_b)
    ELSE add_diff_metric(c, config.name, config.col_a, config.col_b)

\* the entries are registered in order, the first exception ending the loop
RECURSIVE add_derived_metrics(_, _)
add_derived_metrics(r, configs) ==
    IF configs = << >> \/ r.raised # "none" THEN r
    ELSE add_derived_metrics(add_derived_metric(r.calc, Head(configs)),
                             Tail(configs))

\* comparisons[metric] for one numeric column
comparison_of(c, metric) ==
    LET wow_result == compute_wow(c, metric)
        yoy_result == compute_yoy_last_week(wow_result.calc, metric)
    IN  [wow |-> [current |-> wow_result.result.CY.current_value,
                  previous |-> wow_result.result.CY.previous_value,
                  percent_change |-> wow_result.result.CY.percent_change,
                  is_improvement |-> wow_result.result.CY.is_improvement],
         yoy |-> [current |-> yoy_result.result.current_value,
                  previous |-> yoy_result.result.previous_value,
                  percent_change |-> yoy_result.result.percent_change,
                  is_improvement |-> yoy_result.result.is_improvement]]

\* the calculator once compute_wow(metric) and compute_yoy_last_week(metric)
\* have been called on it
compared(c, metric) ==
    compute_yoy_last_week(compute_wow(c, metric).calc, metric).calc

\* "for metric in numeric_cols": every column compared, in the order of the
\* columns
RECURSIVE compared_all(_, _)
compared_all(c, metrics) ==
    IF metrics = << >> THEN c
    ELSE compared_all(compared(c, Head(metrics)), Tail(metrics))

\* len(df)
RECURSIVE RowCount(_, _, _)
RowCount(frame, lo, hi) ==
    IF lo > hi THEN 0
    ELSE IF lo = hi THEN Len(RowsOn(frame, lo))
    ELSE RowCount(frame, lo, (lo + hi) \div 2)
           + RowCount(frame, ((lo + hi) \div 2) + 1, hi)

\* the except branch: data_referencia is the argument as it stands when the
\* exception is raised, and data_referencia.isoformat() needs a date
error_result(df_arg, data_referencia, error) ==
    IF data_referencia.kind = "str"
    THEN [raised |-> "AttributeError", result |-> [status |-> "none"]]
    ELSE [raised |-> "none",
          result |->
              [success |-> FALSE,
               error |-> error,
               reference_date |-> data_referencia,
               fallback_data |->
                   [row_count |-> RowCount(df_arg.rows, FirstDataDay, LastDataDay),
                    date_range |->
                        IF "date" \in df_arg.columns
                        THEN date_range(df_arg.rows) ELSE None]]]

\* what the try block returns once the calculator is built and the derived
\* metrics are registered
success_result(c, reference, numeric_cols, hashseed) ==
    [success |-> TRUE,
     reference_date |-> reference,
     metrics_analyzed |-> Len(numeric_cols),
     comparisons |->
         [metric \in Range(numeric_cols) |-> comparison_of(c, metric)],
     trailing_weeks |->
         [current_year |-> c.cy_trailing_six_weeks,
          previous_year |-> c.py_trailing_six_weeks],
     summary |->
         export_summary(get_metrics_for_streamlit(
                            compared_all(c, numeric_cols), hashseed).calc,
                        hashseed).rows,
     streamlit_data |->
         get_metrics_for_streamlit(compared_all(c, numeric_cols),
                                   hashseed).result,
     derived_metrics |-> DOMAIN c.metric_definitions]

\* the try block once the calculator is built: the derived metrics are
\* registered, then the result is assembled
try_registered(df_arg, reference, registered, numeric_cols, hashseed) ==
    IF registered.raised # "none"
    THEN error_result(df_arg, reference, registered.raised)
    ELSE [raised |-> "none",
          result |-> success_result(registered.calc, reference,
                                    numeric_cols, hashseed)]

try_constructed(df_arg, reference, calculator, metricas_derivadas, numeric_cols, hashseed) ==
    IF calculator.status # "ok"
    THEN error_result(df_arg, reference, calculator.status)
    ELSE Bind(LAMBDA registered :
                  try_registered(df_arg, reference, registered, numeric_cols,
                                 hashseed),
              add_derived_metrics([calc |-> calculator, raised |-> "none"],
                                  metricas_derivadas))

\* the try block from the construction of the calculator on
try_calculator(df_arg, reference, keep, metricas_derivadas, hashseed) ==
    LET numeric_cols == << "metric_value" >>
        \* no column name holds 'rate', 'ratio', 'percent' or 'pct'
        ratio_metrics == {}
        value_metrics == Range(numeric_cols)
    IN  Bind(LAMBDA calculator :
                 try_constructed(df_arg, reference, calculator,
                                 metricas_derivadas, numeric_cols, hashseed),
             WBRCalculator(df_arg.rows, reference.value, 6, keep,
                           value_metrics, ratio_metrics))

\* any exception of the try block, the constructor's and a registration's
\* included, is answered by the except branch
calcular_metricas_wbr(df_arg, data_referencia, keep, metricas_derivadas, hashseed) ==
    IF "date" \notin df_arg.columns
    THEN error_result(df_arg, data_referencia, "KeyError")
    ELSE try_calculator(df_arg, reference_of(df_arg, data_referencia), keep,
                        metricas_derivadas, hashseed)

\* ------------------------------------------------------------------------
\* DataValidator.validate_dataframe                    (wbr_utility.py 34-90)
\* ------------------------------------------------------------------------
\* a DataFrame with the dtype of its date column and the sign of its metric
\* values
TypedFrame(columns, rows, is_datetime, negated) ==
    [columns |-> columns, rows |-> rows, is_datetime |-> is_datetime,
     negated |-> negated]

\* df is None or df.empty
is_empty_or_none(df_arg) ==
    IsNone(df_arg) \/ df_arg.columns = {} \/ IsEmpty(df_arg.rows)

\* date_column if the frame has it, else 'Date' if the frame has it
actual_date_col(df_arg, date_column) ==
    IF date_column \in df_arg.columns THEN date_column
    ELSE IF "Date" \in df_arg.columns THEN "Date"
    ELSE "None"

validation_errors(df_arg, required_columns, date_column) ==
    IF is_empty_or_none(df_arg) THEN {"DataFrame is empty or None"}
    ELSE (IF date_column \notin df_arg.columns /\ "Date" \notin df_arg.columns
          THEN {"Required column not found"} ELSE {})
         \cup
         (IF required_columns \ df_arg.columns # {}
          THEN {"Missing required columns"} ELSE {})

validation_warnings(df_arg, required_columns, date_column) ==
    IF is_empty_or_none(df_arg) THEN {}
    ELSE (IF actual_date_col(df_arg, date_column) # "None" /\ ~df_arg.is_datetime
          THEN {"not datetime type"} ELSE {})
         \cup
         (IF actual_date_col(df_arg, date_column) # "None"
             /\ HasDuplicates(df_arg.rows)
          THEN {"Duplicate dates found"} ELSE {})
         \cup
         (IF "metric_value" \in df_arg.columns /\ df_arg.negated
             /\ \E d \in DOMAIN df_arg.rows :
                   \E k \in 1..Len(df_arg.rows[d]) : df_arg.rows[d][k] > 0
          THEN {"Negative values found"} ELSE {})

\* a validator that treats its warnings as errors
validate_dataframe_strict(df_arg, required_columns, date_column) ==
    [is_valid |->
         validation_errors(df_arg, required_columns, date_column) = {}
         /\ validation_warnings(df_arg, required_columns, date_column) = {},
     errors |-> validation_errors(df_arg, required_columns, date_column),
     warnings |-> validation_warnings(df_arg, required_columns, date_column),
     df |-> df_arg]

\* ValidationResult(is_valid, errors, warnings), and df as the call leaves it
DataValidator_validate_dataframe(df_arg, required_columns, date_column) ==
    [is_valid |-> validation_errors(df_arg, required_columns, date_column) = {},
     errors |-> validation_errors(df_arg, required_columns, date_column),
     warnings |-> validation_warnings(df_arg, required_columns, date_column),
     df |-> df_arg]

\* ------------------------------------------------------------------------
\* State
\* ------------------------------------------------------------------------
VARIABLES
    df,     \* the daily DataFrame handed to the engine, by its name in InputFrames
    pc,     \* "input" before a call, afterwards the name of the call made
    wbr,    \* what processar_dados_wbr returned or raised
    ctw,    \* what compute_trailing_weeks returned or raised
    tsw,    \* what create_trailing_six_weeks returned or raised, with its arguments
    calc,   \* the WBRCalculator constructed
    last,   \* the last method called on the calculator, with its outcome
    calls,  \* number of methods called on the calculator
    kpis,   \* what a calcular_kpis returned, with its argument
    metricas, \* the last call of calcular_metricas_wbr: arguments and outcome
    history,  \* the calls of calcular_metricas_wbr made so far, in order
    hashseed, \* the salt of the interpreter's string hashes, 0 until it is used
    validation \* what DataValidator.validate_dataframe returned, with its arguments

vars == << df, pc, wbr, ctw, tsw, calc, last, calls, kpis, metricas, history,
           hashseed, validation >>

NoResult == [status |-> "none"]

NoCall == [op |-> "none"]

\* the rows of df
Data == InputFrames[df]

NumWeeks == 1..MaxNumWeeks

Init ==
    /\ df \in DOMAIN InputFrames
    /\ pc = "input"
    /\ wbr = NoResult
    /\ ctw = NoResult
    /\ tsw = NoResult
    /\ calc = NoResult
    /\ last = NoCall
    /\ calls = 0
    /\ kpis = NoResult
    /\ metricas = NoResult
    /\ history = << >>
    /\ hashseed = 0
    /\ validation = NoResult

ProcessarDadosWbr ==
    /\ pc = "input"
    /\ \E ref \in RefDates :
          wbr' = processar_dados_wbr(Data, Midnight(ref))
    /\ pc' = "processar_dados_wbr"
    /\ UNCHANGED << df, ctw, tsw, calc, last, calls, kpis, metricas, history, hashseed, validation >>

ComputeTrailingWeeks ==
    /\ pc = "input"
    /\ \E ref \in RefDates, n \in NumWeeks :
          ctw' = compute_trailing_weeks(Data, Midnight(ref), n)
    /\ pc' = "compute_trailing_weeks"
    /\ UNCHANGED << df, wbr, tsw, calc, last, calls, kpis, metricas, history, hashseed, validation >>

CreateTrailingSixWeeks ==
    /\ pc = "input"
    /\ \E ref \in RefDates, n \in NumWeeks :
          tsw' = [week_ending |-> Midnight(ref), num_weeks |-> n,
                  result |-> create_trailing_six_weeks(Data, Midnight(ref), n)]
    /\ pc' = "create_trailing_six_weeks"
    /\ UNCHANGED << df, wbr, ctw, calc, last, calls, kpis, metricas, history, hashseed, validation >>

\* positions of the row drop_duplicates may keep for a date
KeepChoices(frame) == IF HasDuplicates(frame) THEN 1..2 ELSE {1}

\* the week_ending dates calculators are built for: every 61st date
WeekEndings == {d \in RefDates : d % 61 = 0}

\* the value_metrics and ratio_metrics a calculator is built with
Classifications ==
    {[value_metrics |-> v, ratio_metrics |-> r] :
        v \in SUBSET BaseColumns, r \in SUBSET BaseColumns}

NewWBRCalculator ==
    /\ pc = "input"
    /\ \E ref \in WeekEndings, n \in NumWeeks, keep \in KeepChoices(Data),
          cls \in Classifications :
          calc' = WBRCalculator(Data, Midnight(ref), n, keep,
                                cls.value_metrics, cls.ratio_metrics)
    /\ pc' = "WBRCalculator"
    /\ UNCHANGED << df, wbr, ctw, tsw, last, calls, kpis, metricas, history, hashseed, validation >>

\* names under which derived metrics are registered
MetricNames == {"m1", "m2"}

\* the pairs of columns a derived metric is registered with
Dependencies ==
    {<< "metric_value", "metric_value" >>,
     << "metric_value", "m1" >>,
     << "metric_value", "missing" >>}

HandleZero == {"nan", "zero", "inf"}

\* the metrics comparisons are asked for
QueryMetrics == BaseColumns \cup MetricNames

\* a method can be called on a calculator that was constructed
CanCall ==
    /\ pc = "WBRCalculator"
    /\ calc.status = "ok"
    /\ calls < MaxCalls

Registration(op, name, deps, handle_zero, r) ==
    /\ calc' = r.calc
    /\ last' = [op |-> op, name |-> name, dependencies |-> deps,
                handle_zero |-> handle_zero, raised |-> r.raised]
    /\ calls' = calls + 1
    /\ UNCHANGED << df, pc, wbr, ctw, tsw, kpis, metricas, history, hashseed, validation >>

AddProductMetric ==
    /\ CanCall
    /\ \E name \in MetricNames, deps \in Dependencies :
          Registration("add_product_metric", name, deps, "nan",
                       add_product_metric(calc, name, deps[1], deps[2]))

AddDiffMetric ==
    /\ CanCall
    /\ \E name \in MetricNames, deps \in Dependencies :
          Registration("add_diff_metric", name, deps, "nan",
                       add_diff_metric(calc, name, deps[1], deps[2]))

AddDivMetric ==
    /\ CanCall
    /\ \E name \in MetricNames, deps \in Dependencies, handle_zero \in HandleZero :
          Registration("add_div_metric", name, deps, handle_zero,
                       add_div_metric(calc, name, deps[1], deps[2], handle_zero))

AddCustomMetric ==
    /\ CanCall
    /\ \E name \in MetricNames, deps \in Dependencies :
          Registration("add_custom_metric", name, deps, "nan",
                       add_custom_metric(calc, name, deps[1], deps[2]))

Comparison(op, metric, r) ==
    /\ calc' = r.calc
    /\ last' = [op |-> op, metric |-> metric, result |-> r.result]
    /\ calls' = calls + 1
    /\ UNCHANGED << df, pc, wbr, ctw, tsw, kpis, metricas, history, hashseed, validation >>

ComputeWow ==
    /\ CanCall
    /\ \E metric \in QueryMetrics :
          Comparison("compute_wow", metric, compute_wow(calc, metric))

ComputeYoyLastWeek ==
    /\ CanCall
    /\ \E metric \in QueryMetrics :
          Comparison("compute_yoy_last_week", metric,
                     compute_yoy_last_week(calc, metric))

GetDashboardKpis ==
    /\ CanCall
    /\ calc' = calc
    /\ last' = [op |-> "get_dashboard_kpis", result |-> get_dashboard_kpis(calc)]
    /\ calls' = calls + 1
    /\ UNCHANGED << df, pc, wbr, ctw, tsw, kpis, metricas, history, hashseed, validation >>

\* calcular_kpis of wbr_metrics.py
\* the df arguments calcular_kpis is called with: the frame, the frame
\* without its date column and the frame without its metric column
KpiFrames ==
    {DataFrame({"date", "metric_value"}, Data),
     DataFrame({"metric_value"}, Data),
     DataFrame({"date"}, Data)}

KpisCall(columns, data_referencia, outcome) ==
    [columns |-> columns, data_referencia |-> data_referencia,
     raised |-> outcome.raised, result |-> outcome.result]

CalcularKpis ==
    /\ pc = "input"
    /\ \E df_arg \in KpiFrames, keep \in KeepChoices(Data),
          arg \in {NoneArg} \cup {DateArg(Midnight(ref)) : ref \in RefDates} :
          \* without the date column the reference date is never used
          /\ "date" \notin df_arg.columns => arg = NoneArg
          /\ "metric_value" \notin df_arg.columns => arg = NoneArg
          /\ kpis' = KpisCall(df_arg.columns,
                              IF "date" \in df_arg.columns
                              THEN reference_of(df_arg, arg).value ELSE NaT,
                              calcular_kpis(df_arg, arg, keep))
    /\ pc' = "calcular_kpis"
    /\ UNCHANGED << df, wbr, ctw, tsw, calc, last, calls, metricas, history, hashseed, validation >>

\* calcular_kpis of wbr/kpis.py
KpisCalcularKpis ==
    /\ pc = "input"
    /\ \E ref \in RefDates :
          kpis' = KpisCall({"date", "metric_value"}, Midnight(ref),
                           [raised |-> "none",
                            result |-> kpis_calcular_kpis(Data, Midnight(ref))])
    /\ pc' = "kpis.calcular_kpis"
    /\ UNCHANGED << df, wbr, ctw, tsw, calc, last, calls, metricas, history, hashseed, validation >>

\* the metricas_derivadas calcular_metricas_wbr is called with
MetricasDerivadas ==
    {<< >>,
     << DerivedConfig("m1", "division", "metric_value", "metric_value") >>,
     << DerivedConfig("m1", "product", "metric_value", "missing") >>,
     << DerivedConfig("m1", "difference", "metric_value", "metric_value"),
        DerivedConfig("m2", "division", "metric_value", "m1") >>}

\* the df arguments calcular_metricas_wbr is called with: the frame, and a
\* frame whose only column is named 'invalid'
DataFrames ==
    {DataFrame({"date", "metric_value"}, Data), DataFrame({"invalid"}, Data)}

\* the data_referencia arguments: nothing, a date, the same date as a string
ReferenceArgs(dates) ==
    {NoneArg} \cup {DateArg(Midnight(d)) : d \in dates}
              \cup {StrArg(Midnight(d)) : d \in dates}

\* the salt in use: the interpreter draws it once
salt(seed, drawn) == IF seed = 0 THEN drawn ELSE seed

\* one call of calcular_metricas_wbr, with its arguments and its outcome
MetricasCall(df_arg, data_referencia, keep, metricas_derivadas, seed) ==
    [columns |-> df_arg.columns,
     data_referencia |-> data_referencia,
     keep |-> keep,
     metricas_derivadas |-> metricas_derivadas,
     outcome |-> calcular_metricas_wbr(df_arg, data_referencia, keep,
                                       metricas_derivadas, seed)]

CalcularMetricasWbr ==
    /\ pc = "input"
    /\ \E df_arg \in DataFrames, data_referencia \in ReferenceArgs(WeekEndings),
          keep \in KeepChoices(Data),
          metricas_derivadas \in MetricasDerivadas, drawn \in HashSeeds :
          /\ hashseed' = salt(hashseed, drawn)
          /\ metricas' = MetricasCall(df_arg, data_referencia, keep,
                                      metricas_derivadas, hashseed')
    /\ history' = << metricas' >>
    /\ pc' = "calcular_metricas_wbr"
    /\ UNCHANGED << df, wbr, ctw, tsw, calc, last, calls, kpis, validation >>

\* the metricas_derivadas of repeated invocations
RepeatedDerivadas ==
    {<< >>,
     << DerivedConfig("m1", "division", "metric_value", "metric_value") >>}

\* one more invocation of calcular_metricas_wbr on the same data, in the
\* running interpreter or in a freshly started one, which draws its own salt
CalcularMetricasWbrRepeated ==
    /\ pc \in {"input", "calcular_metricas_wbr"}
    /\ Len(history) < MaxInvocations
    /\ \E metricas_derivadas \in RepeatedDerivadas, restarted \in BOOLEAN,
          drawn \in HashSeeds :
          /\ hashseed' = IF restarted THEN drawn ELSE salt(hashseed, drawn)
          /\ metricas' = MetricasCall(DataFrame({"date", "metric_value"}, Data),
                                      NoneArg, 1, metricas_derivadas, hashseed')
    /\ history' = Append(history, metricas')
    /\ pc' = "calcular_metricas_wbr"
    /\ UNCHANGED << df, wbr, ctw, tsw, calc, last, calls, kpis, validation >>

\* the frames the validator is handed: None, and the frame under every
\* choice of column names, date dtype and sign of the values
ValidatorFrames ==
    {None} \cup
    {TypedFrame(columns, Data, is_datetime, negated) :
        columns \in SUBSET {"date", "Date", "metric_value"},
        is_datetime \in BOOLEAN, negated \in BOOLEAN}

RequiredColumns == {{}, {"metric_value"}, {"metric_value", "orders"}}

DateColumns == {"date", "Date"}

ValidateDataframe ==
    /\ pc = "input"
    /\ \E df_arg \in ValidatorFrames, required_columns \in RequiredColumns,
          date_column \in DateColumns :
          validation' = [df |-> df_arg,
                         required_columns |-> required_columns,
                         date_column |-> date_column,
                         result |-> DataValidator_validate_dataframe(
                                        df_arg, required_columns, date_column)]
    /\ pc' = "validate_dataframe"
    /\ UNCHANGED << df, wbr, ctw, tsw, calc, last, calls, kpis, metricas,
                    history, hashseed >>

Next ==
    \/ ProcessarDadosWbr
    \/ ComputeTrailingWeeks
    \/ CreateTrailingSixWeeks
    \/ NewWBRCalculator
    \/ AddProductMetric
    \/ AddDiffMetric
    \/ AddDivMetric
    \/ AddCustomMetric
    \/ ComputeWow
    \/ ComputeYoyLastWeek
    \/ GetDashboardKpis
    \/ CalcularKpis
    \/ KpisCalcularKpis
    \/ CalcularMetricasWbr
    \/ CalcularMetricasWbrRepeated
    \/ ValidateDataframe

Spec == Init /\ [][Next]_vars

\* the calls taken one family at a time
NextProcessar == ProcessarDadosWbr
SpecProcessar == Init /\ [][NextProcessar]_vars

NextCompute == ComputeTrailingWeeks
SpecCompute == Init /\ [][NextCompute]_vars

NextTrailing ==
    \/ CreateTrailingSixWeeks
    \/ NewWBRCalculator
SpecTrailing == Init /\ [][NextTrailing]_vars

\* a calculator, its derived metrics and its comparisons
NextCalculator ==
    \/ NewWBRCalculator
    \/ AddProductMetric
    \/ AddDiffMetric
    \/ AddDivMetric
    \/ AddCustomMetric
    \/ ComputeWow
    \/ ComputeYoyLastWeek
    \/ GetDashboardKpis
SpecCalculator == Init /\ [][NextCalculator]_vars

\* the entry points of the dashboard
NextDashboard ==
    \/ CalcularKpis
    \/ KpisCalcularKpis
    \/ CalcularMetricasWbr
SpecDashboard == Init /\ [][NextDashboard]_vars

\* calcular_metricas_wbr invoked again and again
NextRepeated == CalcularMetricasWbrRepeated
SpecRepeated == Init /\ [][NextRepeated]_vars

\* the validator on its own
NextValidator == ValidateDataframe
SpecValidator == Init /\ [][NextValidator]_vars

\* ------------------------------------------------------------------------
\* Properties of processar_dados_wbr
\* ------------------------------------------------------------------------
Returned == pc = "processar_dados_wbr" /\ wbr.status = "ok"

RefDate == DateOf(wbr.data_referencia)
RefYear == YearOf(RefDate)
RefMonth == MonthOf(RefDate)
RefDay == DayOf(RefDate)

FirstOfMonth(y, m) == ToOrdinal(y, m, 1)
LastOfMonth(y, m) == ToOrdinal(y, m, DaysInMonth(y, m))

\* date b is date a with only the year decremented by one
YearDecremented(a, b) ==
    /\ YearOf(b) = YearOf(a) - 1
    /\ MonthOf(b) = MonthOf(a)
    /\ DayOf(b) = DayOf(a)

\* C1: at every week position the period summed into semanas_py starts and
\* ends on the month/day of the period summed into semanas_cy, one year
\* earlier.
C1_SameCalendarPeriod ==
    (Returned /\ Len(wbr.semanas_cy) = 6) =>
        \A i \in 1..6 :
            /\ YearDecremented(wbr.semanas_cy[i].StartDate, wbr.semanas_py[i].StartDate)
            /\ YearDecremented(wbr.semanas_cy[i].EndDate, wbr.semanas_py[i].EndDate)

\* C2: at every week position the previous-year period spans as many
\* calendar days as the current-year period; a partial last week of k days
\* is compared with k previous-year days.
C2_SameNumberOfDays ==
    (Returned /\ Len(wbr.semanas_cy) = 6) =>
        /\ \A i \in 1..6 :
              wbr.semanas_py[i].EndDate - wbr.semanas_py[i].StartDate
                = wbr.semanas_cy[i].EndDate - wbr.semanas_cy[i].StartDate
        /\ wbr.semana_parcial =>
              wbr.semanas_py[6].EndDate - wbr.semanas_py[6].StartDate + 1
                = wbr.dias_semana_parcial

\* C3: meses_py holds the full previous-year month before the reference
\* month, previous-year days 1..d of the reference month, and null after it.
C3_MesesPy ==
    Returned =>
        \A m \in 1..12 :
            wbr.meses_py[m] =
                IF m < RefMonth
                THEN Val(SumDays(Data, FirstOfMonth(RefYear - 1, m),
                                 LastOfMonth(RefYear - 1, m)))
                ELSE IF m = RefMonth
                THEN Val(SumDays(Data, FirstOfMonth(RefYear - 1, m),
                                 ToOrdinal(RefYear - 1, m, RefDay)))
                ELSE NaN

\* a reference date inside its month whose previous-year month has rows
\* after day d, so truncating differs from the full month
C3_Witness ==
    /\ Returned
    /\ RefMonth > 1
    /\ RefDay < DaysInMonth(RefYear - 1, RefMonth)
    /\ wbr.meses_py[RefMonth].v > 0
    /\ wbr.meses_py[RefMonth].v
         < SumDays(Data, FirstOfMonth(RefYear - 1, RefMonth),
                   LastOfMonth(RefYear - 1, RefMonth))
    /\ wbr.meses_py[RefMonth - 1].v > 0

\* C4: a reference date of 29 February is processed without raising, with
\* 28 February of the previous year closing the previous-year windows.
C4_LeapDayCompletes ==
    (pc = "processar_dados_wbr" /\ RefMonth = 2 /\ RefDay = 29) =>
        /\ wbr.status = "ok"
        /\ wbr.semanas_py[6].EndDate = ToOrdinal(RefYear - 1, 2, 28)
        /\ wbr.meses_py[2]
             = Val(SumDays(Data, FirstOfMonth(RefYear - 1, 2),
                           ToOrdinal(RefYear - 1, 2, 28)))

\* rows of a window are ordered oldest to newest
Ascending(window) ==
    \A i \in 1..(Len(window) - 1) : window[i].Date < window[i + 1].Date

\* C6: semanas_cy and semanas_py have exactly 6 entries each, oldest first,
\* whatever the history of the series.
C6_SixWeeks ==
    Returned =>
        /\ Len(wbr.semanas_cy) = 6
        /\ Len(wbr.semanas_py) = 6
        /\ Ascending(wbr.semanas_cy)
        /\ Ascending(wbr.semanas_py)

\* C9: meses_cy has 12 entries; months after the reference month are null,
\* months up to it hold the sum of their rows up to the reference date (0
\* without rows).
C9_MesesCy ==
    Returned =>
        /\ DOMAIN wbr.meses_cy = 1..12
        /\ \A m \in 1..12 :
              wbr.meses_cy[m] =
                  IF m > RefMonth THEN NaN
                  ELSE IF m = RefMonth
                  THEN Val(SumDays(Data, FirstOfMonth(RefYear, m), RefDate))
                  ELSE Val(SumDays(Data, FirstOfMonth(RefYear, m),
                                   LastOfMonth(RefYear, m)))

\* months still to come, a month without rows before the reference month
\* and a reference month with rows
C9_Witness ==
    /\ Returned
    /\ RefMonth < 12
    /\ RefMonth > 1
    /\ wbr.meses_cy[RefMonth].v > 0
    /\ \E m \in 1..(RefMonth - 1) :
          /\ NoRows(Data, FirstOfMonth(RefYear, m), LastOfMonth(RefYear, m))
          /\ wbr.meses_cy[m] = Val(0)

TswReturned == pc = "create_trailing_six_weeks" /\ tsw.result.status = "ok"
CalcBuilt == pc = "WBRCalculator" /\ calc.status = "ok"
CtwReturned == pc = "compute_trailing_weeks" /\ ctw.status = "ok"

\* number of 7-day blocks, counted back from week_ending, from the block of
\* the earliest row to the block of the latest row of the last n blocks
BlocksWithData(week_ending, n) ==
    LET hi == DateOf(week_ending)
        lo == hi - (7 * n - 1)
    IN  IF NoRows(Data, lo, hi) THEN 0
        ELSE ((hi - FirstDate(Data, lo, hi)) \div 7)
               - ((hi - LastDate(Data, lo, hi)) \div 7) + 1

C7_FixedBlocks ==
    CtwReturned =>
        LET n == ctw.trailing_weeks
            rows == ctw.result_df
        IN  /\ Len(rows) = n
            /\ \A i \in 1..Len(rows) :
                  /\ rows[i].WeekIndex = i
                  /\ rows[i].EndDate = Midnight(DateOf(ctw.week_ending) - 7 * (n - i))
                  /\ rows[i].StartDate = Midnight(DateOf(rows[i].EndDate) - 6)
                  /\ rows[i].value
                       = Val(SumDays(Data, DateOf(rows[i].StartDate),
                                     DateOf(rows[i].EndDate)))

\* a block without rows next to a block holding several rows of one date
C7_Witness ==
    /\ CtwReturned
    /\ ctw.trailing_weeks >= 2
    /\ NoRows(Data, DateOf(ctw.week_ending) - 6, DateOf(ctw.week_ending))
    /\ ctw.result_df[ctw.trailing_weeks].value = Val(0)
    /\ \E d \in (DateOf(ctw.week_ending) - 13)..(DateOf(ctw.week_ending) - 7) :
          Len(RowsOn(Data, d)) > 1
    /\ ctw.result_df[ctw.trailing_weeks - 1].value.v > 0

\* C8: rows sharing a date are summed before the windows are built, so a
\* weekly value of cy_trailing_six_weeks is the sum over all input rows of
\* its week.
C8_DuplicatesSummed ==
    CalcBuilt =>
        \A i \in 1..Len(calc.cy_trailing_six_weeks) :
            LET row == calc.cy_trailing_six_weeks[i]
            IN  ~row.value.isna =>
                    row.value.v = SumDays(Data, DateOf(row.Date) - 6, DateOf(row.Date))


\* ------------------------------------------------------------------------
\* Partial-week detection
\* ------------------------------------------------------------------------
\* C11: semana_parcial is True exactly when the reference date is not the
\* Sunday closing its Monday-Sunday week.
C11_SemanaParcial ==
    Returned => (wbr.semana_parcial <=> Weekday(RefDate) # 6)

\* ------------------------------------------------------------------------
\* Properties of the comparisons
\* ------------------------------------------------------------------------
Compared(op) == pc = "WBRCalculator" /\ last.op = op

\* percent_change of a comparison result is None exactly when its previous
\* value is zero or undefined, and (current - previous) / previous * 100
\* otherwise
PercentChangeAsStated(r) ==
    IF r.previous_value.isna \/ IsZero(r.previous_value)
    THEN IsNone(r.percent_change)
    ELSE /\ ~IsNone(r.percent_change)
         /\ r.percent_change
              = Mul(Div(Sub(r.current_value, r.previous_value),
                        r.previous_value),
                    Val(100))

\* C12: the percent_change of compute_wow and compute_yoy_last_week is None
\* exactly when the previous value is zero or undefined, and otherwise
\* (current - previous) / previous * 100, a change of 0 included.
C12_PercentChange ==
    /\ Compared("compute_wow") =>
          /\ PercentChangeAsStated(last.result.CY)
          /\ PercentChangeAsStated(last.result.PY)
    /\ Compared("compute_yoy_last_week") => PercentChangeAsStated(last.result)

\* C13: without rows in the previous-year period every entry of the PY
\* weekly window is null, in semanas_py of processar_dados_wbr and in
\* py_trailing_six_weeks of WBRCalculator, and every YoY percent_change is
\* None.
C13_NullPyWindow ==
    /\ (Returned /\ NoRows(Data, ToOrdinal(RefYear - 1, 1, 1),
                           ToOrdinal(RefYear - 1, 12, 31))) =>
          \A i \in 1..Len(wbr.semanas_py) : wbr.semanas_py[i].value.isna
    /\ (CalcBuilt
        /\ NoRows(Data,
                  DateOf(calc.week_ending) - 364 - (7 * calc.num_weeks - 1),
                  DateOf(calc.week_ending) - 364)) =>
          /\ \A i \in 1..Len(calc.py_trailing_six_weeks) :
                calc.py_trailing_six_weeks[i].value.isna
          /\ Compared("compute_yoy_last_week") =>
                IsNone(last.result.percent_change)

\* ------------------------------------------------------------------------
\* Properties of the derived metrics
\* ------------------------------------------------------------------------
Registrations ==
    {"add_product_metric", "add_diff_metric", "add_div_metric",
     "add_custom_metric"}

\* the step registers a division with the given handle_zero, its
\* dependencies being columns of the calculator
DivisionStep(handle_zero) ==
    /\ last'.op = "add_div_metric"
    /\ last'.handle_zero = handle_zero
    /\ validate_columns_exist(calc, {last'.dependencies[1], last'.dependencies[2]})

\* the cells of the denominator column, before the step, that hold 0
ZeroDenominators(year) ==
    LET denominator == get_column(calc, year, last'.dependencies[2]).series
    IN  {k \in DOMAIN denominator : IsZero(denominator[k])}

\* the column the step registered
Registered(year) ==
    IF year = "cy" THEN calc'.derived_cy[last'.name]
    ELSE calc'.derived_py[last'.name]

\* C14: add_div_metric with handle_zero = 'nan' raises nothing, and every CY
\* and PY cell whose denominator is 0 is undefined.
C14_NanOnZeroDenominator ==
    [][DivisionStep("nan") =>
          /\ last'.raised = "none"
          /\ \A year \in {"cy", "py"} : \A k \in ZeroDenominators(year) :
                Registered(year)[k].isna]_vars

\* C15: with handle_zero = 'zero' every cell whose denominator is 0 is 0;
\* with handle_zero = 'inf' every such cell is an infinity.
C15_ZeroAndInfOnZeroDenominator ==
    [][/\ DivisionStep("zero") =>
             /\ last'.raised = "none"
             /\ \A year \in {"cy", "py"} : \A k \in ZeroDenominators(year) :
                   Registered(year)[k] = Val(0)
       /\ DivisionStep("inf") =>
             /\ last'.raised = "none"
             /\ \A year \in {"cy", "py"} : \A k \in ZeroDenominators(year) :
                   IsInf(Registered(year)[k])]_vars

\* derived metrics whose registration completed
RegisteredMetrics(c) == (DOMAIN c.derived_cy) \cap (DOMAIN c.derived_py)

\* the cell a registration computes from the cells a and b of its
\* dependencies
Formula(op, handle_zero, a, b) ==
    IF op = "add_product_metric" THEN Mul(a, b)
    ELSE IF op = "add_diff_metric" THEN Sub(a, b)
    ELSE IF op = "add_custom_metric" THEN Add(a, b)
    ELSE IF Div(a, b).isna /\ handle_zero = "zero" THEN Val(0)
    ELSE IF IsInf(Div(a, b)) /\ handle_zero = "inf" THEN NaN
    ELSE Div(a, b)

\* C16: a registration fails when one of its dependencies is neither a base
\* column nor a derived metric registered before; with dependencies that are
\* base columns or derived metrics registered before it is accepted, and
\* the new CY and PY columns are computed from the columns of those
\* dependencies.
C16_Dependencies ==
    [][last'.op \in Registrations =>
          LET col_a == last'.dependencies[1]
              col_b == last'.dependencies[2]
          IN  IF {col_a, col_b} \subseteq (BaseColumns \cup RegisteredMetrics(calc))
              THEN /\ last'.raised # "ValueError"
                   /\ last'.raised = "none" =>
                         \A year \in {"cy", "py"} : \A k \in 1..calc.num_weeks :
                             Registered(year)[k]
                               = Formula(last'.op, last'.handle_zero,
                                         get_column(calc, year, col_a).series[k],
                                         get_column(calc, year, col_b).series[k])
              ELSE last'.raised # "none"]_vars

\* C17: registering a name that is already registered fails and leaves the
\* definition as it was.
C17_DuplicateName ==
    [][(last'.op \in Registrations
        /\ last'.name \in DOMAIN calc.metric_definitions) =>
          /\ last'.raised # "none"
          /\ calc'.metric_definitions = calc.metric_definitions]_vars

ImprovementAsStated(r) ==
    (~r.current_value.isna /\ ~r.previous_value.isna) =>
        r.is_improvement = PyBool(Greater(r.current_value, r.previous_value))

\* C18: for a metric of type value or ratio, derived metrics included, the
\* WoW results have is_improvement = (current > previous) when both values
\* are defined.
C18_IsImprovement ==
    (Compared("compute_wow")
     /\ get_metric_type(calc, last.metric) \in {"value", "ratio"}) =>
        /\ ImprovementAsStated(last.result.CY)
        /\ ImprovementAsStated(last.result.PY)

\* ------------------------------------------------------------------------
\* Properties of the dashboard entry points
\* ------------------------------------------------------------------------
KpisReturned ==
    /\ pc \in {"calcular_kpis", "kpis.calcular_kpis"}
    /\ kpis.columns = {"date", "metric_value"}
    /\ kpis.data_referencia # NaT

\* (current - previous) / previous * 100, 0 when previous is 0
YoyPct(current, previous) ==
    IF previous = 0 THEN Val(0)
    ELSE Mul(Ratio(current - previous, previous), Val(100))

\* the KPI and its year-over-year change are the sum from date `from`
\* through the reference date, and its change against the sum over the
\* same dates one year earlier
ScopedAsStated(kpi, yoy, from) ==
    LET ref == DateOf(kpis.data_referencia)
        current == SumDays(Data, from, ref)
        previous == SumDays(Data, MinusOneYear(from), MinusOneYear(ref))
    IN  /\ kpi = Val(current)
        /\ yoy = YoyPct(current, previous)

\* C19: mes_atual (mtd_atual) sums the reference month through the
\* reference date, trimestre_atual the quarter of the reference month
\* through the reference date, ano_atual 1 January through the reference
\* date, each compared with the same dates of the previous year.
C19_KpiScopes ==
    KpisReturned =>
        LET ref == DateOf(kpis.data_referencia)
            r == kpis.result
        IN  /\ ScopedAsStated(r.mes_atual, r.yoy_mensal,
                              ToOrdinal(YearOf(ref), MonthOf(ref), 1))
            /\ ScopedAsStated(r.mtd_atual, r.mtd_pct,
                              ToOrdinal(YearOf(ref), MonthOf(ref), 1))
            /\ ScopedAsStated(r.trimestre_atual, r.yoy_trimestral,
                              ToOrdinal(YearOf(ref),
                                        ((MonthOf(ref) - 1) \div 3) * 3 + 1, 1))
            /\ ScopedAsStated(r.ano_atual, r.yoy_anual,
                              ToOrdinal(YearOf(ref), 1, 1))

\* C20: calcular_metricas_wbr answers with the comparisons of every base
\* metric whatever the derived metrics asked for, one that cannot be
\* computed included.
C20_OtherMetricsStillCompared ==
    (/\ pc = "calcular_metricas_wbr"
     /\ "date" \in metricas.columns
     /\ ~IsEmpty(Data)) =>
        /\ metricas.outcome.raised = "none"
        /\ metricas.outcome.result.success
        /\ BaseColumns \subseteq DOMAIN metricas.outcome.result.comparisons

\* ------------------------------------------------------------------------
\* Properties of the entry points
\* ------------------------------------------------------------------------
MetricasReturned == pc = "calcular_metricas_wbr"

\* C21: calcular_metricas_wbr never raises: a failed step gives success
\* False with 'error' and 'fallback_data', anything else success True with
\* 'comparisons', 'trailing_weeks', 'summary' and 'streamlit_data'.
C21_MetricasNeverRaises ==
    MetricasReturned =>
        /\ metricas.outcome.raised = "none"
        /\ IF metricas.outcome.result.success
           THEN {"comparisons", "trailing_weeks", "summary", "streamlit_data"}
                    \subseteq DOMAIN metricas.outcome.result
           ELSE {"error", "fallback_data"}
                    \subseteq DOMAIN metricas.outcome.result

KpiKeys ==
    {"ultima_semana", "var_semanal", "yoy_semanal", "mes_atual", "yoy_mensal",
     "trimestre_atual", "yoy_trimestral", "ano_atual", "yoy_anual",
     "wow_pct", "wow_abs", "mtd_atual", "mtd_pct"}

\* the input leaves nothing to compute the KPIs from
NotComputable ==
    \/ "date" \notin kpis.columns
    \/ "metric_value" \notin kpis.columns
    \/ IsEmpty(Data)

\* C22: calcular_kpis of wbr_metrics.py never raises and returns the 13 KPI
\* keys, every one of them 0 when the frame is empty or lacks the date or
\* the metric column.
C22_KpisNeverRaise ==
    pc = "calcular_kpis" =>
        /\ kpis.raised = "none"
        /\ DOMAIN kpis.result = KpiKeys
        /\ NotComputable => \A key \in KpiKeys : kpis.result[key] = Val(0)

C22_Witness ==
    /\ pc = "calcular_kpis"
    /\ "date" \notin kpis.columns
    /\ kpis.result = DefaultKpis

\* ------------------------------------------------------------------------
\* Properties of the validator
\* ------------------------------------------------------------------------
Validated == pc = "validate_dataframe"

EmptyOrNone == is_empty_or_none(validation.df)

RequiredMissing ==
    ~EmptyOrNone /\ validation.required_columns \ validation.df.columns # {}

\* C23: the input is invalid exactly when it is empty or None, or lacks the
\* configured date column, or lacks a required column; warnings never make
\* it invalid and the frame handed in is left as it was.
C23_ValidExactlyWhen ==
    Validated =>
        /\ validation.result.is_valid <=>
              ~(\/ EmptyOrNone
                \/ validation.date_column \notin validation.df.columns
                \/ RequiredMissing)
        /\ validation.result.df = validation.df

\* C23 as the validator has it: the date column counts as missing only when
\* neither the configured date column nor a column named 'Date' exists.
C23_ValidExactlyWhenNoDateAtAll ==
    Validated =>
        /\ validation.result.is_valid <=>
              ~(\/ EmptyOrNone
                \/ (/\ validation.date_column \notin validation.df.columns
                    /\ "Date" \notin validation.df.columns)
                \/ RequiredMissing)
        /\ validation.result.df = validation.df

\* a frame with all three kinds of warning is valid
C23_Witness ==
    /\ Validated
    /\ validation.result.is_valid
    /\ Cardinality(validation.result.warnings) = 3
    /\ validation.date_column \notin validation.df.columns

\* ------------------------------------------------------------------------
\* Year over year on a constant series
\* ------------------------------------------------------------------------
\* a constant series on two full calendar years, the reference date the
\* last day of a month of the second year
ConstantSeriesAtMonthEnd ==
    /\ pc = "processar_dados_wbr"
    /\ df = "flat"
    /\ RefYear = FirstRefYear
    /\ RefDay = DaysInMonth(RefYear, RefMonth)

\* C24: on a constant series covering two full calendar years, with the
\* reference date on the last day of a month, the PY value equals the CY
\* value at every week position and at every month position up to the
\* reference month.
C24_ConstantSeriesNoChange ==
    ConstantSeriesAtMonthEnd =>
        /\ wbr.status = "ok"
        /\ Len(wbr.semanas_cy) = 6
        /\ \A i \in 1..6 : wbr.semanas_py[i].value = wbr.semanas_cy[i].value
        /\ \A m \in 1..RefMonth : wbr.meses_py[m] = wbr.meses_cy[m]

\* ------------------------------------------------------------------------
\* Repeated invocations
\* ------------------------------------------------------------------------
SameArguments(a, b) ==
    /\ a.columns = b.columns
    /\ a.data_referencia = b.data_referencia
    /\ a.keep = b.keep
    /\ a.metricas_derivadas = b.metricas_derivadas

\* C25: two invocations of calcular_metricas_wbr with the same data,
\* reference date and derived-metric definitions return the same result,
\* summary rows in the same order, whatever was invoked before or in between.
C25_SameInputsSameResult ==
    \A i \in 1..Len(history), j \in 1..Len(history) :
        SameArguments(history[i], history[j])
            => history[i].outcome = history[j].outcome

\* ------------------------------------------------------------------------
\* Dates of the CY weekly window
\* ------------------------------------------------------------------------
\* row i of an N-row window is dated 7 * (N - i) days before week_ending
DatedBackFrom(weekly, week_ending) ==
    \A i \in 1..Len(weekly) :
        weekly[i].Date = AddDays(week_ending, -7 * (Len(weekly) - i))

\* C26: row i of the CY weekly window is dated week_ending - 7 * (N - i) days
\* for every input series; the last row is the block ending on week_ending
\* whichever days the data lacks.
C26_RowsDatedBackFromWeekEnding ==
    /\ TswReturned => DatedBackFrom(tsw.result.weekly, tsw.week_ending)
    /\ CalcBuilt => DatedBackFrom(calc.cy_trailing_six_weeks, calc.week_ending)

\* ------------------------------------------------------------------------
\* Anchor of the PY weekly window
\* ------------------------------------------------------------------------
\* C27: the PY weekly window of WBRCalculator is anchored at the reference
\* date with the year decremented by one (29 February falling back to 28
\* February), so PY week i ends on the month and day CY week i ends on.
C27_PyAnchoredOneYearBack ==
    CalcBuilt =>
        \A i \in 1..calc.num_weeks :
            calc.py_trailing_six_weeks[i].Date # NaT =>
                calc.py_trailing_six_weeks[i].Date
                    = data_ref_py(calc.cy_trailing_six_weeks[i].Date)

\* ------------------------------------------------------------------------
\* Positions compared
\* ------------------------------------------------------------------------
\* the comparison is between the cells current and previous
Compares(result, current, previous) ==
    /\ result.current_value = current
    /\ result.previous_value = previous

\* the last two entries of the window of a metric
LastTwoCompared(result, series) ==
    Len(series) >= 2 =>
        Compares(result, series[Len(series)], series[Len(series) - 1])

\* C28: for every metric, undefined cells or not, compute_wow compares
\* position N of the weekly window with position N - 1, and
\* compute_yoy_last_week compares CY position N with PY position N.
C28_PositionsCompared ==
    /\ Compared("compute_wow") =>
          /\ LastTwoCompared(last.result.CY,
                             get_metric_series(calc, last.metric, "cy"))
          /\ LastTwoCompared(last.result.PY,
                             get_metric_series(calc, last.metric, "py"))
    /\ Compared("compute_yoy_last_week") =>
          LET cy == get_metric_series(calc, last.metric, "cy")
              py == get_metric_series(calc, last.metric, "py")
          IN  (cy # << >> /\ py # << >>) =>
                  Compares(last.result, cy[Len(cy)], py[Len(py)])

\* ------------------------------------------------------------------------
\* Queries after a registration
\* ------------------------------------------------------------------------
\* the step registers a derived metric without raising
RegistrationStep == last'.op \in Registrations /\ last'.raised = "none"

\* C29: a query made after add_*_metric(m) returns the comparison computed
\* from the series now materialised for m, never a result computed before
\* that registration.
C29_QueryAfterRegistrationIsFresh ==
    [][RegistrationStep =>
          /\ compute_wow(calc', last'.name).result = wow(calc', last'.name)
          /\ compute_yoy_last_week(calc', last'.name).result
               = yoy_last_week(calc', last'.name)]_vars

\* ------------------------------------------------------------------------
\* Registrations that raise
\* ------------------------------------------------------------------------
\* the step is a registration call that raised
RaisingRegistrationStep == last'.op \in Registrations /\ last'.raised # "none"

\* C30: a registration call that raises leaves metric_definitions,
\* derived_cy and derived_py exactly as they were before the call.
C30_RaisingRegistrationChangesNothing ==
    [][RaisingRegistrationStep =>
          /\ calc'.metric_definitions = calc.metric_definitions
          /\ calc'.derived_cy = calc.derived_cy
          /\ calc'.derived_py = calc.derived_py]_vars

====
